---- MODULE Spec2Model ----
(***************************************************************************)
(* A model of vercel-debugpack's browser capture core                      *)
(* (src/browser/capture.ts, found as src/unnamed/part_007 lines 605-1355)  *)
(* and of the redaction helpers it calls (src/browser/redaction.ts, found  *)
(* as src/unnamed/part_006 lines 1305-1426).                               *)
(*                                                                         *)
(* JavaScript strings are TLA+ strings (Len, \o and SubSeq act on them).   *)
(* A JavaScript function value that this module may wrap (console.error,   *)
(* window.fetch, ...) is the number of capture wrappers around the native  *)
(* function: 0 is the native function, 1 the wrapper installed by          *)
(* wrapConsole / wrapFetch, 2 a wrapper around a wrapper.                  *)
(***************************************************************************)
EXTENDS Integers, Sequences, FiniteSets, TLC

VARIABLES
  hasWindow,               \* typeof window !== 'undefined'
  hasStorage,              \* typeof sessionStorage !== 'undefined'
  previewEnv,              \* outcome of the ambient preview heuristics (methods 1-5)
  sessionStorage,          \* the two keys this module keeps in sessionStorage
  idCounter,               \* how many session ids the random source has produced
  now,                     \* the wall clock, Date.now()
  state,                   \* let state: DebugCaptureState | null
  customIsEnabled,         \* let customIsEnabled: (() => boolean) | null
  customPreviewUrlPattern, \* let customPreviewUrlPattern
  console,                 \* the global console's error/warn/info/debug
  windowFetch,             \* window.fetch
  listeners,               \* listeners registered on window, per event type
  reloadRequested,         \* window.location.reload() was called on this page
  inflight,                \* wrapped fetch calls awaiting the delegated fetch
  nextCallId,              \* number of wrapped fetch calls made on this page
  appended,                \* every entry pushed on the buffer since it was last emptied
  last,                    \* what the most recent operation did and returned
  observed,                \* what initDebugCapture did so far: tokens issued, policy answers
  held,                    \* the array the host got from getLogs(), and what it did to it
  subject,                 \* the arguments a helper is called with
  report,                  \* the RedactionReport the redaction calls share
  cachedStatus,            \* serverClient.ts: let cachedStatus: ServerStatus | null
  pending                  \* serverClient.ts: calls that await the local server

vars == <<hasWindow, hasStorage, previewEnv, sessionStorage, idCounter, now, state,
          customIsEnabled, customPreviewUrlPattern, console, windowFetch, listeners,
          reloadRequested, inflight, nextCallId, appended, last, observed,
          held, subject, report, cachedStatus, pending>>

\* what the helpers outside the capture module work on
library == <<subject, report>>

\* what the client of the local server keeps on a page
client == <<cachedStatus, pending>>

\* what the capture module and its page consist of
capture == <<hasWindow, hasStorage, previewEnv, sessionStorage, idCounter, now, state,
             customIsEnabled, customPreviewUrlPattern, console, windowFetch, listeners,
             reloadRequested, inflight, nextCallId, appended, observed, held>>

(***************************************************************************)
(* Bounds of the model.                                                    *)
(***************************************************************************)
\* largest maxBufferSize a host configures
MaxBufferSize == 2
\* entries pushed between two clears of one page load
MaxAppends == 3
\* session ids the random source hands out
MaxIds == 2
\* largest value of the clock
MaxTime == 1
\* wrapped fetch calls in flight at once
MaxInflight == 1
\* wrapped fetch calls per page load
MaxCalls == 1
\* longest string handed to truncateString
MaxStrLen == 20
\* largest maxLength handed to truncateString
MaxMaxLength == 16
\* most wrapped fetch calls a page has in flight at once when the calls
\* overlap
MaxConcurrent == 2
\* most redactString calls made on one report
MaxRedactCalls == 3
\* requests the probes of one page load send to the local server
MaxProbeFetches == 3
\* largest value of the clock, in milliseconds, of a page that waits between
\* probes
MaxClock == 30000

(***************************************************************************)
(* Program constants.                                                      *)
(***************************************************************************)
DefaultMaxBufferSize == 1000
DefaultMaxStringLength == 5000
NetworkErrorMaxLength == 200
PROBE_CACHE_MS == 30000

DEBUG_SESSION_HEADER == "x-debug-session-id"

\* the absent values of JavaScript
Null == "null"
Undefined == "undefined"

Min(a, b) == IF a <= b THEN a ELSE b

(***************************************************************************)
(* redaction.ts                                                            *)
(***************************************************************************)
CharAt(str, i) == SubSeq(str, i, i)

\* String.prototype.indexOf(ch), 1-based; 0 when ch does not occur
IndexOf(str, ch) ==
  IF \E i \in 1..Len(str) : CharAt(str, i) = ch
  THEN CHOOSE i \in 1..Len(str) :
         /\ CharAt(str, i) = ch
         /\ \A j \in 1..(i - 1) : CharAt(str, j) # ch
  ELSE 0

StartsWith(str, prefix) ==
  /\ Len(str) >= Len(prefix)
  /\ SubSeq(str, 1, Len(prefix)) = prefix

\* new URL(url) succeeds: the model's absolute URLs are http(s) URLs with a
\* lower-case host, no credentials, no explicit port and no dot segments
UrlParses(url) == StartsWith(url, "http://") \/ StartsWith(url, "https://")

\* index of the first character after scheme://
UrlHostStart(url) == IF StartsWith(url, "https://") THEN 9 ELSE 8

\* first index at or after from where one of the characters in chars occurs,
\* Len(url) + 1 when none does
UrlFirstOf(url, from, chars) ==
  IF \E i \in from..Len(url) : CharAt(url, i) \in chars
  THEN CHOOSE i \in from..Len(url) :
         /\ CharAt(url, i) \in chars
         /\ \A j \in from..(i - 1) : CharAt(url, j) \notin chars
  ELSE Len(url) + 1

\* URL.origin: scheme://host
UrlOrigin(url) == SubSeq(url, 1, UrlFirstOf(url, UrlHostStart(url), {"/", "?", "#"}) - 1)

\* URL.pathname: from the first / after the host up to the query or fragment,
\* "/" when the URL has no path
UrlPathname(url) ==
  LET hostEnd == UrlFirstOf(url, UrlHostStart(url), {"/", "?", "#"})
      pathEnd == UrlFirstOf(url, hostEnd, {"?", "#"})
  IN  IF hostEnd = pathEnd THEN "/" ELSE SubSeq(url, hostEnd, pathEnd - 1)

\* sanitizeUrl whose fallback cuts at the query only
sanitizeUrlQueryOnly(url) ==
  IF UrlParses(url)
  THEN UrlOrigin(url) \o UrlPathname(url)
  ELSE LET queryIndex == IndexOf(url, "?")
       IN  IF queryIndex # 0 THEN SubSeq(url, 1, queryIndex - 1) ELSE url

sanitizeUrl(url) ==
  IF UrlParses(url)
  THEN UrlOrigin(url) \o UrlPathname(url)
  ELSE LET queryIndex == IndexOf(url, "?")
           hashIndex == IndexOf(url, "#")
           e0 == Len(url)
           e1 == IF queryIndex # 0 THEN Min(e0, queryIndex - 1) ELSE e0
           endIndex == IF hashIndex # 0 THEN Min(e1, hashIndex - 1) ELSE e1
       IN  SubSeq(url, 1, endIndex)

TruncationSuffix == "...[truncated]"

truncateString(str, maxLength) ==
  IF Len(str) <= maxLength
  THEN str
  ELSE LET truncateAt == maxLength - Len(TruncationSuffix)
       IN  IF truncateAt <= 0
           THEN TruncationSuffix
           ELSE SubSeq(str, 1, truncateAt) \o TruncationSuffix

(***************************************************************************)
(* JavaScript values handed to the instrumented primitives.  An Error has  *)
(* a message and a stack ("" when it has none); an object carries what     *)
(* JSON.stringify (with the cycle-guarding replacer) and String() make of  *)
(* it, either of which may throw.                                          *)
(***************************************************************************)
NullValue == [kind |-> "null"]
UndefinedValue == [kind |-> "undefined"]
ErrorValue(message, stack) == [kind |-> "error", message |-> message, stack |-> stack]
StringValue(str) == [kind |-> "string", str |-> str]
ObjectValue(jsonOk, json, strOk, str) ==
  [kind |-> "object", jsonOk |-> jsonOk, json |-> json, strOk |-> strOk, str |-> str]
PrimitiveValue(str) == [kind |-> "primitive", str |-> str]

\* the result of a call that may throw
Returned(str) == [threw |-> FALSE, str |-> str]
Threw == [threw |-> TRUE]

\* String(value)
ToStr(value) ==
  CASE value.kind = "null" -> Returned("null")
    [] value.kind = "undefined" -> Returned("undefined")
    [] value.kind = "error" ->
         Returned(IF value.message = "" THEN "Error" ELSE "Error: " \o value.message)
    [] value.kind = "string" -> Returned(value.str)
    [] value.kind = "object" -> IF value.strOk THEN Returned(value.str) ELSE Threw
    [] OTHER -> Returned(value.str)

safeStringify(value, maxLength) ==
  CASE value.kind = "null" -> Returned("null")
    [] value.kind = "undefined" -> Returned("undefined")
    [] value.kind = "error" ->
         Returned(truncateString(IF value.message # "" THEN value.message
                                 ELSE ToStr(value).str, maxLength))
    [] value.kind = "string" -> Returned(truncateString(value.str, maxLength))
    [] value.kind = "object" ->
         IF value.jsonOk
         THEN Returned(truncateString(value.json, maxLength))
         ELSE IF ToStr(value).threw
              THEN Threw
              ELSE Returned(truncateString(ToStr(value).str, maxLength))
    [] OTHER -> Returned(truncateString(ToStr(value).str, maxLength))

\* error is a value or UndefinedValue; tempStack is what is left of
\* new Error().stack after its first three lines, Null when nothing is
extractStack(error, maxLength, tempStack) ==
  IF error.kind = "error" /\ error.stack # ""
  THEN truncateString(error.stack, maxLength)
  ELSE IF tempStack # Null
       THEN truncateString(tempStack, maxLength)
       ELSE Null

\* args.map((a) => safeStringify(a, maxLength)).join(' ')
RECURSIVE JoinArgs(_, _)
JoinArgs(args, maxLength) ==
  IF args = <<>>
  THEN Returned("")
  ELSE LET head == safeStringify(Head(args), maxLength)
           rest == JoinArgs(Tail(args), maxLength)
       IN  IF head.threw \/ rest.threw
           THEN Threw
           ELSE Returned(IF Len(args) = 1 THEN head.str ELSE head.str \o " " \o rest.str)

(***************************************************************************)
(* capture.ts: session identity and the enablement policy                  *)
(***************************************************************************)
\* the n-th token of the random source
SessionIdOf(n) == "sid-" \o ToString(n)

\* sessionStorage with neither key set
EmptyStorage == [sessionId |-> Null, keyboard |-> Null]

\* getOrCreateSessionId never reading the stored token
getOrCreateSessionIdAlwaysNew(storage, counter) ==
  [id |-> SessionIdOf(counter + 1),
   storage |-> IF hasStorage
               THEN [storage EXCEPT !.sessionId = SessionIdOf(counter + 1)]
               ELSE storage,
   counter |-> counter + 1]

\* if (existing): the key is set and its value is not the empty string
Existing(storage) == storage.sessionId # Null /\ storage.sessionId # ""

\* returns the token and the storage and the random source after the call
getOrCreateSessionId(storage, counter) ==
  IF hasStorage
  THEN IF Existing(storage)
       THEN [id |-> storage.sessionId, storage |-> storage, counter |-> counter]
       ELSE [id |-> SessionIdOf(counter + 1),
             storage |-> [storage EXCEPT !.sessionId = SessionIdOf(counter + 1)],
             counter |-> counter + 1]
  ELSE [id |-> SessionIdOf(counter + 1), storage |-> storage, counter |-> counter + 1]

isKeyboardEnabled(storage) ==
  IF ~hasStorage THEN FALSE ELSE storage.keyboard = "true"

\* setKeyboardEnabled storing the flag whatever it is asked to store
setKeyboardEnabledAlwaysOn(storage, enabled) ==
  IF ~hasStorage THEN storage ELSE [storage EXCEPT !.keyboard = "true"]

setKeyboardEnabled(storage, enabled) ==
  IF ~hasStorage
  THEN storage
  ELSE IF enabled
       THEN [storage EXCEPT !.keyboard = "true"]
       ELSE [storage EXCEPT !.keyboard = Null]

\* pattern is Null, or whether the configured pattern matches the hostname
matchesCustomPreviewPattern(pattern) ==
  IF pattern = Null THEN FALSE ELSE pattern = "matches"

isPreviewEnvironment(pattern) ==
  IF ~hasWindow
  THEN FALSE
  ELSE IF pattern # Null /\ matchesCustomPreviewPattern(pattern)
       THEN TRUE
       ELSE previewEnv

defaultIsEnabled(storage, pattern) ==
  IF ~hasWindow
  THEN FALSE
  ELSE IF ~isPreviewEnvironment(pattern)
       THEN FALSE
       ELSE isKeyboardEnabled(storage)


(***************************************************************************)
(* capture.ts: the singleton session and the buffer                        *)
(***************************************************************************)
\* let state = null
NullState == [initialized |-> FALSE]

\* serverClient.ts: cachedStatus while no status is cached
NoStatus == [cached |-> FALSE]

\* state?.enabled
Active(st) == st.initialized /\ st.enabled

\* an options object is a record of the options the caller gave
Opt(options, key, default) == IF key \in DOMAIN options THEN options[key] ELSE default

\* meta of an entry that has none
NoMeta == [key \in {} |-> Null]

\* new Date().toISOString(): the clock value stands for its ISO rendering
IsoString(t) == t

\* window.location.href of the page
LocationHref == "https://app.io/p?debug=1#top"

\* typeof window !== 'undefined' ? sanitizeUrl(window.location.href) : null
PageUrl == IF hasWindow THEN sanitizeUrl(LocationHref) ELSE Null

\* FullEntry stamping the id found in sessionStorage, not the session's
FullEntryFromStorage(st, entry, t) ==
  [ts |-> IsoString(t), level |-> entry.level, type |-> entry.type,
   message |-> entry.message, stack |-> entry.stack, url |-> entry.url,
   debugSessionId |-> sessionStorage.sessionId, meta |-> entry.meta]

\* the entry addLogEntry builds from the fields an interceptor hands it
FullEntry(st, entry, t) ==
  [ts |-> IsoString(t), level |-> entry.level, type |-> entry.type,
   message |-> entry.message, stack |-> entry.stack, url |-> entry.url,
   debugSessionId |-> st.sessionId, meta |-> entry.meta]

\* Trimmed with the comparison off by one: the buffer may grow one past the limit
TrimmedOffByOne(buffer, maxBufferSize) ==
  IF Len(buffer) > maxBufferSize + 1 THEN Tail(buffer) ELSE buffer

\* Trimmed dropping the newest entry (pop) where the code drops the oldest (shift)
TrimmedNewest(buffer, maxBufferSize) ==
  IF Len(buffer) > maxBufferSize THEN SubSeq(buffer, 1, Len(buffer) - 1) ELSE buffer

\* state.buffer after push and the trim that follows it
Trimmed(buffer, maxBufferSize) ==
  IF Len(buffer) > maxBufferSize THEN Tail(buffer) ELSE buffer

\* the state after addLogEntry(entry) at time t
addLogEntry(st, entry, t) ==
  IF ~Active(st)
  THEN st
  ELSE [st EXCEPT !.buffer =
          Trimmed(Append(st.buffer, FullEntry(st, entry, t)), st.config.maxBufferSize)]

\* what addLogEntry(entry) pushed on the buffer
Pushed(st, entry, t) ==
  IF ~Active(st) THEN <<>> ELSE <<FullEntry(st, entry, t)>>

\* addLogEntry for each of a sequence of entries, in order
RECURSIVE addLogEntries(_, _, _)
addLogEntries(st, entries, t) ==
  IF entries = <<>>
  THEN st
  ELSE addLogEntries(addLogEntry(st, Head(entries), t), Tail(entries), t)

RECURSIVE PushedAll(_, _, _)
PushedAll(st, entries, t) ==
  IF entries = <<>>
  THEN <<>>
  ELSE Pushed(st, Head(entries), t)
         \o PushedAll(addLogEntry(st, Head(entries), t), Tail(entries), t)

(***************************************************************************)
(* capture.ts: initDebugCapture                                            *)
(***************************************************************************)
NativeConsole == [error |-> 0, warn |-> 0, info |-> 0, debug |-> 0]
NoListeners == [error |-> 0, unhandledrejection |-> 0]

\* (() => Promise.reject(new Error('fetch not available')))
FetchNotAvailable == -1

\* fullConfig; a custom isEnabled is a function, of which the model keeps
\* that it was given
FullConfig(config) ==
  [isEnabled |-> IF "isEnabled" \in DOMAIN config THEN "custom" ELSE "default",
   previewUrlPattern |-> Opt(config, "previewUrlPattern", Undefined),
   maxBufferSize |-> Opt(config, "maxBufferSize", DefaultMaxBufferSize),
   maxStringLength |-> Opt(config, "maxStringLength", DefaultMaxStringLength),
   captureWarnings |-> Opt(config, "captureWarnings", TRUE),
   captureInfo |-> Opt(config, "captureInfo", FALSE),
   injectSessionHeader |-> Opt(config, "injectSessionHeader", TRUE),
   onlyFetchFailures |-> Opt(config, "onlyFetchFailures", TRUE)]

\* initDebugCapture without its guard against a second initialisation
AlreadyInitializedNever(st) == FALSE

\* if (state?.initialized) return createAPI()
AlreadyInitialized(st) == st.initialized

\* fullConfig.isEnabled(): a custom policy answers policyResult, the default
\* policy is defaultIsEnabled
EvalIsEnabled(fullConfig, policyResult, storage, pattern) ==
  IF fullConfig.isEnabled = "custom"
  THEN policyResult
  ELSE defaultIsEnabled(storage, pattern)

\* initDebugCapture going on although the policy answered false
PolicyRejectsNever(enabled) == FALSE

\* if (!enabled) return null
PolicyRejects(enabled) == ~enabled

\* wrapConsole: the state and the console after it
wrapConsole(st, con) ==
  IF ~st.initialized
  THEN [state |-> st, console |-> con]
  ELSE LET st1 == [st EXCEPT !.originalConsoleError = con.error]
           con1 == [con EXCEPT !.error = con.error + 1]
           st2 == IF st.config.captureWarnings
                  THEN [st1 EXCEPT !.originalConsoleWarn = con1.warn]
                  ELSE st1
           con2 == IF st.config.captureWarnings
                   THEN [con1 EXCEPT !.warn = con1.warn + 1]
                   ELSE con1
           st3 == IF st.config.captureInfo
                  THEN [st2 EXCEPT !.originalConsoleInfo = con2.info,
                                   !.originalConsoleDebug = con2.debug]
                  ELSE st2
           con3 == IF st.config.captureInfo
                   THEN [con2 EXCEPT !.info = con2.info + 1, !.debug = con2.debug + 1]
                   ELSE con2
       IN  [state |-> st3, console |-> con3]

\* wrapFetch: the state and window.fetch after it
wrapFetch(st, wf) ==
  IF ~st.initialized \/ ~hasWindow
  THEN [state |-> st, windowFetch |-> wf]
  ELSE [state |-> [st EXCEPT !.originalFetch = wf], windowFetch |-> wf + 1]

\* setupErrorListeners: the listeners on window after it
setupErrorListeners(ls) ==
  IF ~hasWindow
  THEN ls
  ELSE [error |-> ls.error + 1, unhandledrejection |-> ls.unhandledrejection + 1]

\* the handle createAPI() returns: it reads the module's state when used
ApiHandle == "DebugCaptureAPI"

getDebugCapture == IF ~Active(state) THEN Null ELSE ApiHandle

isDebugModeActive == Active(state)

getDebugSessionId == IF state.initialized THEN state.sessionId ELSE Null

\* nothing issued, nothing evaluated
NothingObserved ==
  [issued |-> {}, calls |-> 0, retired |-> {}, rejected |-> FALSE, evaluations |-> 0]

\* the policy was evaluated and answered enabled
PolicyObserved(obs, enabled) ==
  [obs EXCEPT !.rejected = @ \/ ~enabled, !.evaluations = Min(@ + 1, 2)]

\* getOrCreateSessionId returned id
TokenObserved(obs, id) ==
  [obs EXCEPT !.issued = @ \cup {id}, !.calls = Min(@ + 1, 2)]

initDebugCapture(config, policyResult) ==
  IF AlreadyInitialized(state)
  THEN /\ last' = [op |-> "initDebugCapture", returned |-> ApiHandle,
                   evaluated |-> FALSE, repeated |-> Active(state)]
       /\ UNCHANGED <<observed, state, customIsEnabled, customPreviewUrlPattern, console,
                      windowFetch, listeners, sessionStorage, idCounter, appended>>
  ELSE LET pattern == IF "previewUrlPattern" \in DOMAIN config
                      THEN config.previewUrlPattern
                      ELSE customPreviewUrlPattern
           fullConfig == FullConfig(config)
           enabled == EvalIsEnabled(fullConfig, policyResult, sessionStorage, pattern)
           sid == getOrCreateSessionId(sessionStorage, idCounter)
           st0 == [initialized |-> TRUE,
                   enabled |-> TRUE,
                   sessionId |-> sid.id,
                   buffer |-> <<>>,
                   config |-> fullConfig,
                   originalConsoleError |-> console.error,
                   originalConsoleWarn |-> console.warn,
                   originalConsoleInfo |-> console.info,
                   originalConsoleDebug |-> console.debug,
                   originalFetch |-> IF hasWindow THEN windowFetch ELSE FetchNotAvailable]
           wc == wrapConsole(st0, console)
           wf == wrapFetch(wc.state, windowFetch)
       IN  /\ customIsEnabled' =
                IF "isEnabled" \in DOMAIN config THEN "custom" ELSE customIsEnabled
           /\ customPreviewUrlPattern' = pattern
           /\ IF PolicyRejects(enabled)
              THEN /\ last' = [op |-> "initDebugCapture", returned |-> Null,
                               evaluated |-> TRUE, enabled |-> enabled,
                               repeated |-> Active(state)]
                   /\ observed' = PolicyObserved(observed, enabled)
                   /\ UNCHANGED <<state, console, windowFetch, listeners,
                                  sessionStorage, idCounter, appended>>
              ELSE /\ state' = wf.state
                   /\ console' = wc.console
                   /\ windowFetch' = wf.windowFetch
                   /\ listeners' = setupErrorListeners(listeners)
                   /\ sessionStorage' = sid.storage
                   /\ idCounter' = sid.counter
                   /\ appended' = <<>>
                   /\ observed' = TokenObserved(PolicyObserved(observed, enabled), sid.id)
                   /\ last' = [op |-> "initDebugCapture", returned |-> ApiHandle,
                               evaluated |-> TRUE, enabled |-> enabled,
                               repeated |-> Active(state)]

InitDebugCapture(config, policyResult) ==
  /\ \/ AlreadyInitialized(state)
     \/ idCounter < MaxIds
     \/ hasStorage /\ Existing(sessionStorage)
  /\ initDebugCapture(config, policyResult)
  /\ UNCHANGED <<library, client, held, hasWindow, hasStorage, previewEnv, now, reloadRequested, inflight,
                 nextCallId>>


(***************************************************************************)
(* capture.ts: the console wrappers                                        *)
(***************************************************************************)
ConsoleMethods == {"error", "warn", "info", "debug"}

\* state.originalConsoleError, ...Warn, ...Info, ...Debug
OriginalConsole(st, method) ==
  CASE method = "error" -> st.originalConsoleError
    [] method = "warn" -> st.originalConsoleWarn
    [] method = "info" -> st.originalConsoleInfo
    [] OTHER -> st.originalConsoleDebug

ConsoleLevel(method) ==
  CASE method = "error" -> "error"
    [] method = "warn" -> "warn"
    [] OTHER -> "event"

\* the stack a console wrapper records
ConsoleStack(st, method, args, tempStack) ==
  CASE method = "error" ->
         extractStack(IF args # <<>> /\ Head(args).kind = "error"
                      THEN Head(args) ELSE UndefinedValue,
                      st.config.maxStringLength, tempStack)
    [] method = "warn" ->
         extractStack(UndefinedValue, st.config.maxStringLength, tempStack)
    [] OTHER -> Null

\* One run of the wrapper wrapConsole installed for method: the state after
\* it, what it pushed, how often the native method ran and with what, and
\* whether the call threw.  The wrapper delegates to the function saved in
\* the state; were that a wrapper too (both read the same state), the
\* delegation would recurse until the stack overflows.
ConsoleWrapper(st, method, args, tempStack, t) ==
  LET message == JoinArgs(args, st.config.maxStringLength)
      entry == [level |-> ConsoleLevel(method), type |-> "console",
                message |-> message.str,
                stack |-> ConsoleStack(st, method, args, tempStack),
                url |-> PageUrl, meta |-> NoMeta]
  IN  IF message.threw
      THEN [state |-> st, pushed |-> <<>>, nativeCalls |-> 0, nativeArgs |-> <<>>,
            threw |-> TRUE]
      ELSE IF OriginalConsole(st, method) = 0
           THEN [state |-> addLogEntry(st, entry, t), pushed |-> Pushed(st, entry, t),
                 nativeCalls |-> 1, nativeArgs |-> args, threw |-> FALSE]
           ELSE [state |-> addLogEntry(st, entry, t), pushed |-> Pushed(st, entry, t),
                 nativeCalls |-> 0, nativeArgs |-> <<>>, threw |-> TRUE]

\* the host calls console[method](...args) while it is wrapped
ConsoleCall(method, args, tempStack) ==
  /\ console[method] >= 1
  /\ Len(appended) < MaxAppends
  /\ LET run == ConsoleWrapper(state, method, args, tempStack, now)
     IN  /\ state' = run.state
         /\ appended' = appended \o run.pushed
         /\ last' = [op |-> "console", method |-> method, args |-> args,
                     nativeCalls |-> run.nativeCalls, nativeArgs |-> run.nativeArgs,
                     threw |-> run.threw, pushed |-> run.pushed]
  /\ UNCHANGED <<library, client, held, observed, hasWindow, hasStorage, previewEnv, sessionStorage, idCounter, now,
                 customIsEnabled, customPreviewUrlPattern, console, windowFetch,
                 listeners, reloadRequested, inflight, nextCallId>>

(***************************************************************************)
(* capture.ts: the global error listeners                                  *)
(***************************************************************************)
\* a value is truthy unless it is null, undefined or the empty string
Truthy(value) ==
  /\ value.kind \notin {"null", "undefined"}
  /\ ~(value.kind = "string" /\ value.str = "")

\* n copies of x
RECURSIVE Copies(_, _)
Copies(n, x) == IF n <= 0 THEN <<>> ELSE <<x>> \o Copies(n - 1, x)

\* the entry the 'error' listener builds
WindowErrorEntry(st, event, tempStack) ==
  [level |-> "error", type |-> "window_error",
   message |-> IF event.message # "" THEN event.message ELSE "Unknown error",
   stack |-> IF Truthy(event.error)
             THEN extractStack(event.error, st.config.maxStringLength, tempStack)
             ELSE Null,
   url |-> IF event.filename # ""
           THEN sanitizeUrl(event.filename)
           ELSE sanitizeUrl(LocationHref),
   meta |-> NoMeta]

\* the window dispatches an ErrorEvent to every registered listener
WindowErrorEvent(event, tempStack) ==
  /\ hasWindow
  /\ listeners.error >= 1
  /\ Len(appended) < MaxAppends
  /\ LET entries == Copies(listeners.error, WindowErrorEntry(state, event, tempStack))
     IN  /\ state' = addLogEntries(state, entries, now)
         /\ appended' = appended \o PushedAll(state, entries, now)
         /\ last' = [op |-> "windowError", pushed |-> PushedAll(state, entries, now)]
  /\ UNCHANGED <<library, client, held, observed, hasWindow, hasStorage, previewEnv, sessionStorage, idCounter, now,
                 customIsEnabled, customPreviewUrlPattern, console, windowFetch,
                 listeners, reloadRequested, inflight, nextCallId>>

\* the message the 'unhandledrejection' listener derives from the reason
RejectionMessage(st, reason) ==
  IF reason.kind = "error"
  THEN Returned(reason.message)
  ELSE safeStringify(reason, st.config.maxStringLength)

RejectionEntry(st, reason, tempStack) ==
  [level |-> "error", type |-> "unhandled_rejection",
   message |-> "Unhandled Promise Rejection: " \o RejectionMessage(st, reason).str,
   stack |-> IF reason.kind = "error"
             THEN extractStack(reason, st.config.maxStringLength, tempStack)
             ELSE Null,
   url |-> sanitizeUrl(LocationHref),
   meta |-> NoMeta]

\* the window dispatches a PromiseRejectionEvent; a listener that throws
\* while it builds its message appends nothing
UnhandledRejectionEvent(reason, tempStack) ==
  /\ hasWindow
  /\ listeners.unhandledrejection >= 1
  /\ Len(appended) < MaxAppends
  /\ LET entries == IF RejectionMessage(state, reason).threw
                    THEN <<>>
                    ELSE Copies(listeners.unhandledrejection,
                                RejectionEntry(state, reason, tempStack))
     IN  /\ state' = addLogEntries(state, entries, now)
         /\ appended' = appended \o PushedAll(state, entries, now)
         /\ last' = [op |-> "unhandledRejection",
                     pushed |-> PushedAll(state, entries, now)]
  /\ UNCHANGED <<library, client, held, observed, hasWindow, hasStorage, previewEnv, sessionStorage, idCounter, now,
                 customIsEnabled, customPreviewUrlPattern, console, windowFetch,
                 listeners, reloadRequested, inflight, nextCallId>>

(***************************************************************************)
(* capture.ts: the public API (createAPI).  A handle exists only once an   *)
(* initDebugCapture or getDebugCapture call of this page load returned it. *)
(***************************************************************************)
getLogs == IF state.initialized THEN state.buffer ELSE <<>>

getLogCount == IF state.initialized THEN Len(state.buffer) ELSE 0

\* api.log(level, message, meta)
ApiLog(level, message, meta) ==
  /\ state.initialized
  /\ Len(appended) < MaxAppends
  /\ LET entry == [level |-> level, type |-> "console", message |-> message,
                   stack |-> Null, url |-> PageUrl, meta |-> meta]
     IN  /\ state' = addLogEntry(state, entry, now)
         /\ appended' = appended \o Pushed(state, entry, now)
         /\ last' = [op |-> "log", pushed |-> Pushed(state, entry, now)]
  /\ UNCHANGED <<library, client, held, observed, hasWindow, hasStorage, previewEnv, sessionStorage, idCounter, now,
                 customIsEnabled, customPreviewUrlPattern, console, windowFetch,
                 listeners, reloadRequested, inflight, nextCallId>>

\* no array was handed out
NoSnapshot == [taken |-> FALSE, array |-> <<>>]

\* The array getLogs() returns, [...state.buffer]: a new array whose elements
\* are the entry objects of the buffer themselves.  An element is the entry
\* as the host sees it and the object's place in the append history (0 for
\* an object that is in no buffer).
SnapshotOf(buffer, history) ==
  [taken |-> TRUE,
   array |-> [i \in 1..Len(buffer) |->
                [entry |-> buffer[i], serial |-> Len(history) - Len(buffer) + i]]]

\* state.buffer = []: the objects the host holds are in no buffer any more
Detached(snapshot) ==
  [snapshot EXCEPT !.array = [i \in 1..Len(snapshot.array) |->
                                [snapshot.array[i] EXCEPT !.serial = 0]]]

\* const logs = api.getLogs()
GetLogs ==
  /\ state.initialized
  /\ held' = SnapshotOf(state.buffer, appended)
  /\ last' = [op |-> "getLogs", returned |-> getLogs]
  /\ UNCHANGED <<library, client, observed, hasWindow, hasStorage, previewEnv, sessionStorage, idCounter,
                 now, state, customIsEnabled, customPreviewUrlPattern, console,
                 windowFetch, listeners, reloadRequested, inflight, nextCallId,
                 appended>>

RECURSIVE Reversed(_)
Reversed(seq) == IF seq = <<>> THEN <<>> ELSE Reversed(Tail(seq)) \o <<Head(seq)>>

\* an object the host made itself
HostEntry ==
  [entry |-> [level |-> "event", type |-> "console", message |-> "forged"],
   serial |-> 0]

ArrayOps == {"push", "pop", "reverse"}

\* logs.push(x), logs.pop(), logs.reverse(): the host changes its array
HostChangesArray(op) ==
  /\ held.taken
  /\ op = "push" => Len(held.array) <= MaxBufferSize
  /\ op \in {"pop", "reverse"} => held.array # <<>>
  /\ held' = [held EXCEPT !.array =
                CASE op = "push" -> Append(@, HostEntry)
                  [] op = "pop" -> SubSeq(@, 1, Len(@) - 1)
                  [] OTHER -> Reversed(@)]
  /\ last' = [op |-> "hostChangesArray", before |-> getLogs]
  /\ UNCHANGED <<library, client, observed, hasWindow, hasStorage, previewEnv, sessionStorage, idCounter,
                 now, state, customIsEnabled, customPreviewUrlPattern, console,
                 windowFetch, listeners, reloadRequested, inflight, nextCallId,
                 appended>>

\* logs[i].message = text: the host writes a field of an object of its array;
\* the write shows wherever that object is
HostWritesEntry(i, text) ==
  /\ held.taken
  /\ i \in 1..Len(held.array)
  /\ held.array[i].entry.message # text
  /\ LET serial == held.array[i].serial
         offset == Len(appended) - Len(state.buffer)
     IN  /\ held' = [held EXCEPT !.array =
                       [j \in 1..Len(@) |->
                          IF j = i \/ (serial >= 1 /\ @[j].serial = serial)
                          THEN [@[j] EXCEPT !.entry.message = text]
                          ELSE @[j]]]
         /\ state' = IF serial > offset
                     THEN [state EXCEPT !.buffer[serial - offset].message = text]
                     ELSE state
         /\ appended' = IF serial >= 1
                        THEN [appended EXCEPT ![serial].message = text]
                        ELSE appended
  /\ last' = [op |-> "hostWritesEntry", before |-> getLogs]
  /\ UNCHANGED <<library, client, observed, hasWindow, hasStorage, previewEnv, sessionStorage, idCounter,
                 now, customIsEnabled, customPreviewUrlPattern, console, windowFetch,
                 listeners, reloadRequested, inflight, nextCallId>>

\* api.clearLogs()
ApiClearLogs ==
  /\ state.initialized
  /\ state' = [state EXCEPT !.buffer = <<>>]
  /\ appended' = <<>>
  /\ held' = Detached(held)
  /\ last' = [op |-> "clearLogs"]
  /\ UNCHANGED <<library, client, observed, hasWindow, hasStorage, previewEnv, sessionStorage, idCounter, now,
                 customIsEnabled, customPreviewUrlPattern, console, windowFetch,
                 listeners, reloadRequested, inflight, nextCallId>>


(***************************************************************************)
(* capture.ts: the fetch wrapper.  The input of a call is a string, a URL  *)
(* or a Request; its init is a record of the fields the caller gave; a     *)
(* header list is a function from (lower-case) header names to values.     *)
(***************************************************************************)
StringInput(url) == [kind |-> "string", url |-> url]
UrlInput(href) == [kind |-> "URL", href |-> href]
RequestInput(url, method, headers) ==
  [kind |-> "Request", url |-> url, method |-> method, headers |-> headers]

NoHeaders == [name \in {} |-> ""]
NoInit == [key \in {} |-> Null]

\* object with key set to value, its other keys kept
SetKey(object, key, value) ==
  [k \in DOMAIN object \cup {key} |-> IF k = key THEN value ELSE object[k]]

\* a header name is a non-empty token: here, one without a space
IsValidHeaderName(name) == name # "" /\ IndexOf(name, " ") = 0

\* new Headers(init): throws a TypeError on a name that is no token
NewHeaders(headersInit) ==
  IF \E name \in DOMAIN headersInit : ~IsValidHeaderName(name)
  THEN [threw |-> TRUE]
  ELSE [threw |-> FALSE, headers |-> headersInit]

\* typeof input === 'string' ? input : input instanceof URL ? input.href : input.url
InputUrl(input) == IF input.kind = "URL" THEN input.href ELSE input.url

\* init?.method || 'GET'
InitMethod(init) == Opt(init, "method", "GET")

\* the name of the header that carries the session id
InjectedHeaderName == "x-debug-session-id"

\* InjectHeader keeping a header of that name the caller supplied
InjectHeaderIfAbsent(headers, sessionId) ==
  IF InjectedHeaderName \in DOMAIN headers
  THEN headers
  ELSE SetKey(headers, InjectedHeaderName, sessionId)

\* headers.set('x-debug-session-id', state.sessionId)
InjectHeader(headers, sessionId) == SetKey(headers, InjectedHeaderName, sessionId)

\* modifiedInit: the init handed to the original fetch, or that building it threw
ModifiedInit(st, init) ==
  IF st.config.injectSessionHeader
  THEN LET made == NewHeaders(Opt(init, "headers", NoHeaders))
       IN  IF made.threw
           THEN [threw |-> TRUE]
           ELSE [threw |-> FALSE,
                 init |-> SetKey(init, "headers", InjectHeader(made.headers, st.sessionId))]
  ELSE [threw |-> FALSE, init |-> init]

\* the headers of the request fetch(input, init) sends: those of init when
\* init has a headers field, which then replace the headers of a Request
\* passed as input
SentHeaders(input, init) ==
  IF "headers" \in DOMAIN init
  THEN init.headers
  ELSE IF input.kind = "Request" THEN input.headers ELSE NoHeaders

\* a Response, of which the wrapper reads ok, status and statusText
Response(status, statusText) ==
  [ok |-> status \in 200..299, status |-> status, statusText |-> statusText]

Resolved(response) == [kind |-> "resolved", response |-> response]
Rejected(error) == [kind |-> "rejected", error |-> error]

\* the TypeError or RangeError the wrapper's own code raised
WrapperError == ErrorValue("thrown by the wrapper", "")

\* ShouldCapture with the failure test inverted
ShouldCaptureInverted(config, response) == ~config.onlyFetchFailures \/ response.ok

\* const shouldCapture = !state.config.onlyFetchFailures || !response.ok
ShouldCapture(config, response) == ~config.onlyFetchFailures \/ ~response.ok

\* ResponseEntry reading the url, method and start time from where the most
\* recent call left them, not from the call's own closure
ResponseEntryOfLatestCall(call, response, t) ==
  LET latest == CHOOSE c \in inflight : \A d \in inflight : d.id <= c.id
  IN  [level |-> IF response.ok THEN "event" ELSE "error",
       type |-> "fetch",
       message |-> latest.method \o " " \o sanitizeUrl(latest.url) \o " - "
                     \o ToString(response.status) \o " " \o response.statusText,
       stack |-> Null,
       url |-> sanitizeUrl(latest.url),
       meta |-> [method |-> latest.method, status |-> response.status,
                 durationMs |-> t - latest.startTime]]

ResponseEntry(call, response, t) ==
  [level |-> IF response.ok THEN "event" ELSE "error",
   type |-> "fetch",
   message |-> call.method \o " " \o sanitizeUrl(call.url) \o " - "
                 \o ToString(response.status) \o " " \o response.statusText,
   stack |-> Null,
   url |-> sanitizeUrl(call.url),
   meta |-> [method |-> call.method, status |-> response.status,
             durationMs |-> t - call.startTime]]

\* error instanceof Error ? error.message : String(error)
NetworkErrorMessage(error) ==
  IF error.kind = "error" THEN Returned(error.message) ELSE ToStr(error)

NetworkErrorEntry(st, call, error, tempStack, t) ==
  [level |-> "error",
   type |-> "fetch",
   message |-> call.method \o " " \o sanitizeUrl(call.url) \o " - Network Error: "
                 \o truncateString(NetworkErrorMessage(error).str, NetworkErrorMaxLength),
   stack |-> IF error.kind = "error"
             THEN extractStack(error, st.config.maxStringLength, tempStack)
             ELSE Null,
   url |-> sanitizeUrl(call.url),
   meta |-> [method |-> call.method, durationMs |-> t - call.startTime]]

\* the catch block recording a rejection only when failures are not filtered
RejectionEntriesGated(st, call, error, tempStack, t) ==
  IF st.config.onlyFetchFailures
  THEN <<>>
  ELSE <<NetworkErrorEntry(st, call, error, tempStack, t)>>

\* what the catch block hands to addLogEntry
RejectionEntries(st, call, error, tempStack, t) ==
  <<NetworkErrorEntry(st, call, error, tempStack, t)>>

\* The wrapper's code after the delegated fetch settled with outcome: the
\* entries it hands to addLogEntry and how the wrapper's own promise settles.
AfterSettle(st, call, outcome, tempStack, t) ==
  IF outcome.kind = "resolved"
  THEN [entries |-> IF ShouldCapture(st.config, outcome.response)
                    THEN <<ResponseEntry(call, outcome.response, t)>>
                    ELSE <<>>,
        result |-> Resolved(outcome.response)]
  ELSE IF NetworkErrorMessage(outcome.error).threw
       THEN [entries |-> <<>>, result |-> Rejected(WrapperError)]
       ELSE [entries |-> RejectionEntries(st, call, outcome.error, tempStack, t),
             result |-> Rejected(outcome.error)]

\* The host calls window.fetch(input, init) while it is wrapped.  Up to its
\* await the wrapper runs in one step: it either throws while it builds the
\* headers (its promise rejects, nothing is delegated) or delegates to the
\* function saved in the state.  Were that a wrapper too, the delegation
\* would recurse until the stack overflows.
wrappedFetch(input, init) ==
  /\ windowFetch >= 1
  /\ LET made == ModifiedInit(state, init)
         call == [id |-> nextCallId + 1, startTime |-> now, url |-> InputUrl(input),
                  method |-> InitMethod(init), input |-> input, init |-> init]
     IN  IF made.threw \/ state.originalFetch # 0
         THEN /\ inflight' = inflight
              /\ last' = [op |-> "fetch", call |-> call, delegations |-> <<>>,
                          settled |-> TRUE, result |-> Rejected(WrapperError)]
         ELSE /\ inflight' = inflight \cup {call}
              /\ last' = [op |-> "fetch", call |-> call,
                          delegations |-> <<[input |-> input, init |-> made.init]>>,
                          settled |-> FALSE]
  /\ nextCallId' = nextCallId + 1
  /\ UNCHANGED <<library, client, held, observed, hasWindow, hasStorage, previewEnv, sessionStorage, idCounter, now,
                 state, customIsEnabled, customPreviewUrlPattern, console, windowFetch,
                 listeners, reloadRequested, appended>>

\* a page that awaits each call before it makes the next
WrappedFetchCall(input, init) ==
  /\ nextCallId < MaxCalls
  /\ Cardinality(inflight) < MaxInflight
  /\ wrappedFetch(input, init)

\* a page that makes calls while earlier ones are in flight
ConcurrentFetchCall(input, init) ==
  /\ Cardinality(inflight) < MaxConcurrent
  /\ nextCallId < MaxConcurrent
  /\ wrappedFetch(input, init)

\* the delegated fetch of an in-flight call settles and the wrapper resumes
FetchSettle(call, outcome, tempStack) ==
  /\ call \in inflight
  /\ Len(appended) < MaxAppends
  /\ LET after == AfterSettle(state, call, outcome, tempStack, now)
     IN  /\ state' = addLogEntries(state, after.entries, now)
         /\ appended' = appended \o PushedAll(state, after.entries, now)
         /\ last' = [op |-> "fetchSettle", call |-> call, outcome |-> outcome,
                     result |-> after.result,
                     pushed |-> PushedAll(state, after.entries, now)]
  /\ inflight' = inflight \ {call}
  /\ UNCHANGED <<library, client, held, observed, hasWindow, hasStorage, previewEnv, sessionStorage, idCounter, now,
                 customIsEnabled, customPreviewUrlPattern, console, windowFetch,
                 listeners, reloadRequested, nextCallId>>

(***************************************************************************)
(* serverClient.ts: the client of the local server.  Its calls go through  *)
(* the global fetch, which is the wrapper above once a session is Active.  *)
(***************************************************************************)
DEFAULT_SERVER_URL == "http://localhost:3847"

\* the second argument of fetch(`${serverUrl}/bundle`, ...); the body is left out
BundleInit ==
  [method |-> "POST", headers |-> SetKey(NoHeaders, "content-type", "application/json")]

\* a body response.json() rejects, and one it parses to value
Unparseable == [parses |-> FALSE]
Parsed(value) == [parses |-> TRUE, value |-> value]

\* the message of the SyntaxError response.json() rejects with
JsonSyntaxError == "Unexpected token < in JSON"

\* { success: false, error: error instanceof Error ? error.message : '...' }
ConnectFailure(error) ==
  [success |-> FALSE,
   error |-> IF error.kind = "error" THEN error.message ELSE "Failed to connect to server"]

\* the global fetch is called with input and init: the call the client waits
\* for, and the wrapper's bookkeeping when fetch is wrapped
ClientFetch(url, init) ==
  [id |-> nextCallId + 1, startTime |-> now, url |-> url, method |-> InitMethod(init),
   input |-> StringInput(url), init |-> init]

\* createBundleOnServer(api.getLogs(), api.getSessionId(), serverUrl) up to
\* its first await, called as the panel calls it (handleCreateBundle)
CreateBundleOnServer(serverUrl) ==
  /\ state.initialized
  /\ windowFetch >= 1 /\ state.originalFetch = 0
  /\ nextCallId < MaxCalls
  /\ Cardinality(inflight) < MaxInflight
  /\ ~ModifiedInit(state, BundleInit).threw
  /\ LET call == ClientFetch(serverUrl \o "/bundle", BundleInit)
     IN  /\ inflight' = inflight \cup {call}
         /\ pending' = pending \cup {[kind |-> "bundle", call |-> call, logs |-> getLogs,
                                      sessionId |-> state.sessionId]}
         /\ last' = [op |-> "bundleRequested", call |-> call]
  /\ nextCallId' = nextCallId + 1
  /\ UNCHANGED <<library, cachedStatus, held, observed, hasWindow, hasStorage, previewEnv,
                 sessionStorage, idCounter, now, state, customIsEnabled,
                 customPreviewUrlPattern, console, windowFetch, listeners,
                 reloadRequested, appended>>

\* what createBundleOnServer resolves with once the wrapper's promise settled
BundleResult(settled, body) ==
  IF settled.kind = "rejected"
  THEN ConnectFailure(settled.error)
  ELSE IF ~body.parses
       THEN ConnectFailure(ErrorValue(JsonSyntaxError, ""))
       ELSE body.value

\* the request to /bundle settles: the wrapper resumes, then createBundleOnServer
BundleSettle(request, outcome, body, tempStack) ==
  /\ request \in pending
  /\ request.kind = "bundle"
  /\ Len(appended) < MaxAppends
  /\ LET after == AfterSettle(state, request.call, outcome, tempStack, now)
     IN  /\ state' = addLogEntries(state, after.entries, now)
         /\ appended' = appended \o PushedAll(state, after.entries, now)
         /\ last' = [op |-> "createBundleOnServer", request |-> request,
                     outcome |-> outcome, body |-> body,
                     result |-> BundleResult(after.result, body),
                     before |-> state,
                     pushed |-> PushedAll(state, after.entries, now)]
  /\ inflight' = inflight \ {request.call}
  /\ pending' = pending \ {request}
  /\ UNCHANGED <<library, cachedStatus, held, observed, hasWindow, hasStorage, previewEnv,
                 sessionStorage, idCounter, now, customIsEnabled, customPreviewUrlPattern,
                 console, windowFetch, listeners, reloadRequested, nextCallId>>

\* the second argument of fetch(`${serverUrl}/health`, ...) and of
\* fetch(`${serverUrl}/config`, ...); the abort signal is left out, the
\* abort is one of the ways the request is rejected
HealthInit == [method |-> "GET"]
ConfigInit == NoInit

\* the ServerStatus objects probeServer stores; server is not a field of the
\* program's object, it records the serverUrl of the probe that built it
AvailableStatus(serverUrl, version, projectName, t) ==
  [available |-> TRUE, version |-> version, projectName |-> projectName,
   lastChecked |-> t, server |-> serverUrl]
UnavailableStatus(serverUrl, t) ==
  [available |-> FALSE, lastChecked |-> t, server |-> serverUrl]

\* cachedStatus && Date.now() - cachedStatus.lastChecked < PROBE_CACHE_MS
CacheFresh(cached, t) == cached # NoStatus /\ t - cached.lastChecked < PROBE_CACHE_MS

\* the global fetch is the capture wrapper
FetchWrapped == windowFetch >= 1

\* probeServer(serverUrl) called with cached in cachedStatus: it returns the
\* cached status, or runs up to its first await
probeServer(serverUrl, cached, via) ==
  /\ FetchWrapped => state.originalFetch = 0
  /\ IF CacheFresh(cached, now)
     THEN /\ cachedStatus' = cached
          /\ last' = [op |-> "probeServer", via |-> via, serverUrl |-> serverUrl,
                      requested |-> FALSE, result |-> cached, at |-> now]
          /\ UNCHANGED <<pending, inflight, nextCallId>>
     ELSE /\ nextCallId < MaxProbeFetches
          /\ Cardinality(pending) < MaxConcurrent
          /\ LET call == ClientFetch(serverUrl \o "/health", HealthInit)
             IN  /\ pending' = pending \cup {[kind |-> "health", call |-> call, via |-> via,
                                              serverUrl |-> serverUrl]}
                 /\ inflight' = IF FetchWrapped THEN inflight \cup {call} ELSE inflight
                 /\ last' = [op |-> "probeRequested", via |-> via, serverUrl |-> serverUrl,
                             call |-> call]
          /\ cachedStatus' = cached
          /\ nextCallId' = nextCallId + 1
  /\ UNCHANGED <<library, held, observed, hasWindow, hasStorage, previewEnv, sessionStorage,
                 idCounter, now, state, customIsEnabled, customPreviewUrlPattern, console,
                 windowFetch, listeners, reloadRequested, appended>>

ProbeServer(serverUrl) == probeServer(serverUrl, cachedStatus, "probeServer")

\* cachedStatus = null; return probeServer(serverUrl)
RefreshServerStatus(serverUrl) == probeServer(serverUrl, NoStatus, "refreshServerStatus")

ClearServerStatusCache ==
  /\ cachedStatus' = NoStatus
  /\ last' = [op |-> "clearServerStatusCache"]
  /\ UNCHANGED <<library, pending, held, observed, hasWindow, hasStorage, previewEnv,
                 sessionStorage, idCounter, now, state, customIsEnabled,
                 customPreviewUrlPattern, console, windowFetch, listeners, reloadRequested,
                 inflight, nextCallId, appended>>

\* what the wrapper appends when a request of the client settles, and how
\* the promise the client awaits settles
ClientSettle(call, outcome, tempStack) ==
  IF FetchWrapped
  THEN AfterSettle(state, call, outcome, tempStack, now)
  ELSE [entries |-> <<>>, result |-> outcome]

\* the request to /health settles.  When the response is ok and its body
\* parses, probeServer goes on to request /config; otherwise it stores and
\* returns an unavailable status.
HealthSettle(request, outcome, body, tempStack) ==
  /\ request \in pending
  /\ request.kind = "health"
  /\ Len(appended) < MaxAppends
  /\ LET after == ClientSettle(request.call, outcome, tempStack)
         goesOn == /\ after.result.kind = "resolved"
                   /\ after.result.response.ok
                   /\ body.parses
         call == ClientFetch(request.serverUrl \o "/config", ConfigInit)
         status == UnavailableStatus(request.serverUrl, now)
     IN  /\ state' = addLogEntries(state, after.entries, now)
         /\ appended' = appended \o PushedAll(state, after.entries, now)
         /\ IF goesOn
            THEN /\ pending' = (pending \ {request}) \cup
                                 {[kind |-> "config", call |-> call, via |-> request.via,
                                   serverUrl |-> request.serverUrl,
                                   version |-> body.value.version]}
                 /\ inflight' = (inflight \ {request.call}) \cup
                                  (IF FetchWrapped THEN {call} ELSE {})
                 /\ nextCallId' = nextCallId + 1
                 /\ cachedStatus' = cachedStatus
                 /\ last' = [op |-> "configRequested", via |-> request.via,
                             serverUrl |-> request.serverUrl, call |-> call]
            ELSE /\ pending' = pending \ {request}
                 /\ inflight' = inflight \ {request.call}
                 /\ nextCallId' = nextCallId
                 /\ cachedStatus' = status
                 /\ last' = [op |-> "probeServer", via |-> request.via,
                             serverUrl |-> request.serverUrl, requested |-> TRUE,
                             result |-> status, at |-> now]
  /\ UNCHANGED <<library, held, observed, hasWindow, hasStorage, previewEnv, sessionStorage,
                 idCounter, now, customIsEnabled, customPreviewUrlPattern, console,
                 windowFetch, listeners, reloadRequested>>

\* the request to /config settles; a failure leaves projectName null
ConfigSettle(request, outcome, body, tempStack) ==
  /\ request \in pending
  /\ request.kind = "config"
  /\ Len(appended) < MaxAppends
  /\ LET after == ClientSettle(request.call, outcome, tempStack)
         read == /\ after.result.kind = "resolved"
                 /\ after.result.response.ok
                 /\ body.parses
         status == AvailableStatus(request.serverUrl, request.version,
                                   IF read THEN body.value.projectName ELSE Null, now)
     IN  /\ state' = addLogEntries(state, after.entries, now)
         /\ appended' = appended \o PushedAll(state, after.entries, now)
         /\ cachedStatus' = status
         /\ last' = [op |-> "probeServer", via |-> request.via,
                     serverUrl |-> request.serverUrl, requested |-> TRUE,
                     result |-> status, at |-> now]
  /\ pending' = pending \ {request}
  /\ inflight' = inflight \ {request.call}
  /\ UNCHANGED <<library, held, observed, hasWindow, hasStorage, previewEnv, sessionStorage,
                 idCounter, now, customIsEnabled, customPreviewUrlPattern, console,
                 windowFetch, listeners, reloadRequested, nextCallId>>

\* the page idles for ms milliseconds
Wait(ms) ==
  /\ now + ms <= MaxClock
  /\ now' = now + ms
  /\ UNCHANGED <<library, client, held, observed, hasWindow, hasStorage, previewEnv,
                 sessionStorage, idCounter, state, customIsEnabled, customPreviewUrlPattern,
                 console, windowFetch, listeners, reloadRequested, inflight, nextCallId,
                 appended, last>>

(***************************************************************************)
(* The page around the module                                              *)
(***************************************************************************)
\* time passes
Tick ==
  /\ now < MaxTime
  /\ now' = now + 1
  /\ UNCHANGED <<library, client, held, observed, hasWindow, hasStorage, previewEnv, sessionStorage, idCounter, state,
                 customIsEnabled, customPreviewUrlPattern, console, windowFetch,
                 listeners, reloadRequested, inflight, nextCallId, appended, last>>

\* the module's variables and the ambient primitives of a freshly loaded page
FreshPage ==
  /\ state' = NullState
  /\ customIsEnabled' = Null
  /\ customPreviewUrlPattern' = Null
  /\ console' = NativeConsole
  /\ windowFetch' = 0
  /\ listeners' = NoListeners
  /\ reloadRequested' = FALSE
  /\ inflight' = {}
  /\ nextCallId' = 0
  /\ appended' = <<>>
  /\ held' = NoSnapshot
  /\ cachedStatus' = NoStatus
  /\ pending' = {}

\* the page reloads: sessionStorage survives, everything else starts over
Reload ==
  /\ hasWindow
  /\ FreshPage
  /\ observed' = [observed EXCEPT !.rejected = FALSE, !.evaluations = 0]
  /\ last' = [op |-> "reload"]
  /\ UNCHANGED <<library, hasWindow, hasStorage, previewEnv, sessionStorage, idCounter, now>>

\* the tab is closed and a new browsing session starts: sessionStorage is empty
NewBrowsingSession ==
  /\ hasWindow
  /\ sessionStorage # EmptyStorage
  /\ FreshPage
  /\ sessionStorage' = EmptyStorage
  /\ observed' = [NothingObserved EXCEPT !.retired = observed.retired \cup observed.issued]
  /\ last' = [op |-> "newSession"]
  /\ UNCHANGED <<library, hasWindow, hasStorage, previewEnv, idCounter, now>>


\* another script of the page, or an earlier version of this one, writes
\* the key the session token is kept under
HostStoresToken(value) ==
  /\ hasStorage
  /\ sessionStorage.sessionId # value
  /\ sessionStorage' = [sessionStorage EXCEPT !.sessionId = value]
  /\ last' = [op |-> "hostStoresToken", value |-> value]
  /\ UNCHANGED <<library, client, held, observed, hasWindow, hasStorage, previewEnv, idCounter,
                 now, state, customIsEnabled, customPreviewUrlPattern, console,
                 windowFetch, listeners, reloadRequested, inflight, nextCallId, appended>>

(***************************************************************************)
(* capture.ts: toggleDebugMode                                             *)
(***************************************************************************)
CustomRefusedWarning ==
  "[debugpack] Cannot enable debug mode: custom isEnabled() returned false"
NotPreviewWarning ==
  "[debugpack] Cannot toggle debug mode outside preview environment."

\* console.warn(text) from inside the module: through the wrapper when
\* console.warn is wrapped
ModuleWarn(st, text, tempStack, t) ==
  IF console.warn >= 1
  THEN ConsoleWrapper(st, "warn", <<StringValue(text)>>, tempStack, t)
  ELSE [state |-> st, pushed |-> <<>>, nativeCalls |-> 1,
        nativeArgs |-> <<StringValue(text)>>, threw |-> FALSE]

\* ToggleOutcome without the revert of the flag after a custom isEnabled
\* refused the enable attempt
ToggleOutcomeNoRevert(storage, policyResult) ==
  IF ~hasWindow
  THEN [storage |-> storage, reloads |-> 0, warning |-> Null, returned |-> Null]
  ELSE IF customIsEnabled # Null
       THEN IF isKeyboardEnabled(storage)
            THEN [storage |-> setKeyboardEnabled(storage, FALSE), reloads |-> 1,
                  warning |-> Null, returned |-> "false"]
            ELSE IF ~policyResult
                 THEN [storage |-> setKeyboardEnabled(storage, TRUE),
                       reloads |-> 0, warning |-> CustomRefusedWarning,
                       returned |-> Null]
                 ELSE [storage |-> setKeyboardEnabled(storage, TRUE), reloads |-> 1,
                       warning |-> Null, returned |-> "true"]
       ELSE IF ~isPreviewEnvironment(customPreviewUrlPattern)
            THEN [storage |-> storage, reloads |-> 0, warning |-> NotPreviewWarning,
                  returned |-> Null]
            ELSE IF isKeyboardEnabled(storage)
                 THEN [storage |-> setKeyboardEnabled(storage, FALSE), reloads |-> 1,
                       warning |-> Null, returned |-> "false"]
                 ELSE [storage |-> setKeyboardEnabled(storage, TRUE), reloads |-> 1,
                       warning |-> Null, returned |-> "true"]

\* what toggleDebugMode() decides: the flag it leaves in sessionStorage,
\* how often it calls window.location.reload(), the warning it prints (Null
\* when none) and the value it returns ("true", "false" or Null)
ToggleOutcome(storage, policyResult) ==
  IF ~hasWindow
  THEN [storage |-> storage, reloads |-> 0, warning |-> Null, returned |-> Null]
  ELSE IF customIsEnabled # Null
       THEN IF isKeyboardEnabled(storage)
            THEN [storage |-> setKeyboardEnabled(storage, FALSE), reloads |-> 1,
                  warning |-> Null, returned |-> "false"]
            ELSE IF ~policyResult
                 THEN [storage |-> setKeyboardEnabled(setKeyboardEnabled(storage, TRUE),
                                                      FALSE),
                       reloads |-> 0, warning |-> CustomRefusedWarning,
                       returned |-> Null]
                 ELSE [storage |-> setKeyboardEnabled(storage, TRUE), reloads |-> 1,
                       warning |-> Null, returned |-> "true"]
       ELSE IF ~isPreviewEnvironment(customPreviewUrlPattern)
            THEN [storage |-> storage, reloads |-> 0, warning |-> NotPreviewWarning,
                  returned |-> Null]
            ELSE IF isKeyboardEnabled(storage)
                 THEN [storage |-> setKeyboardEnabled(storage, FALSE), reloads |-> 1,
                       warning |-> Null, returned |-> "false"]
                 ELSE [storage |-> setKeyboardEnabled(storage, TRUE), reloads |-> 1,
                       warning |-> Null, returned |-> "true"]

\* toggleDebugMode(); policyResult is what a custom isEnabled answers
ToggleDebugMode(policyResult, tempStack) ==
  /\ Len(appended) < MaxAppends
  /\ LET out == ToggleOutcome(sessionStorage, policyResult)
         warn == IF out.warning = Null
                 THEN [state |-> state, pushed |-> <<>>]
                 ELSE ModuleWarn(state, out.warning, tempStack, now)
     IN  /\ sessionStorage' = out.storage
         /\ reloadRequested' = (reloadRequested \/ out.reloads > 0)
         /\ state' = warn.state
         /\ appended' = appended \o warn.pushed
         /\ last' = [op |-> "toggleDebugMode", returned |-> out.returned,
                     reloads |-> out.reloads, pushed |-> warn.pushed]
  /\ UNCHANGED <<library, client, held, observed, hasWindow, hasStorage, previewEnv, idCounter, now, customIsEnabled,
                 customPreviewUrlPattern, console, windowFetch, listeners, inflight,
                 nextCallId>>


(***************************************************************************)
(* The page as it loads                                                    *)
(***************************************************************************)
PageLoaded ==
  /\ hasWindow \in BOOLEAN
  /\ hasStorage \in BOOLEAN
  /\ hasStorage => hasWindow
  /\ previewEnv \in BOOLEAN
  /\ sessionStorage = EmptyStorage
  /\ idCounter = 0
  /\ now = 0
  /\ state = NullState
  /\ customIsEnabled = Null
  /\ customPreviewUrlPattern = Null
  /\ console = NativeConsole
  /\ windowFetch = 0
  /\ listeners = NoListeners
  /\ reloadRequested = FALSE
  /\ inflight = {}
  /\ nextCallId = 0
  /\ appended = <<>>
  /\ last = [op |-> "load"]
  /\ observed = NothingObserved
  /\ held = NoSnapshot
  /\ cachedStatus = NoStatus
  /\ pending = {}

\* a page that calls none of the helpers directly
Init ==
  /\ PageLoaded
  /\ subject = Null
  /\ report = Null

\* a browser page outside a preview deployment
InitBrowser == Init /\ hasWindow /\ hasStorage /\ ~previewEnv

\* a custom isEnabled function
CustomPolicy == "custom"

\* initDebugCapture() without options
NoConfig == [key \in {} |-> Null]

\* what is left of new Error().stack at a call site
TempStacks == {"at main"}

(***************************************************************************)
(* Spec: the life cycle of the session, in every environment               *)
(***************************************************************************)
Configs ==
  {NoConfig,
   [previewUrlPattern |-> "matches"],
   [isEnabled |-> CustomPolicy],
   [isEnabled |-> CustomPolicy, maxBufferSize |-> 1, captureWarnings |-> FALSE,
    captureInfo |-> TRUE, injectSessionHeader |-> FALSE]}

Next ==
  \/ \E config \in Configs, policyResult \in BOOLEAN :
       InitDebugCapture(config, policyResult)
  \/ \E method \in {"error", "info"}, tempStack \in TempStacks :
       ConsoleCall(method, <<StringValue("a")>>, tempStack)
  \/ \E policyResult \in BOOLEAN, tempStack \in TempStacks :
       ToggleDebugMode(policyResult, tempStack)
  \/ Reload
  \/ NewBrowsingSession

Spec == Init /\ [][Next]_vars

(***************************************************************************)
(* SpecBuffer: every source of entries, on a browser page                  *)
(***************************************************************************)
BufferConfigs ==
  {[isEnabled |-> CustomPolicy, maxBufferSize |-> n, onlyFetchFailures |-> FALSE] :
     n \in 1..MaxBufferSize}

ErrorEvents ==
  {[message |-> "oops", error |-> ErrorValue("oops", "at g"), filename |-> ""]}

RejectionReasons == {StringValue("no")}

BufferFetchOutcomes ==
  {Resolved(Response(200, "OK")), Rejected(ErrorValue("Failed to fetch", "at h"))}

NextBuffer ==
  \/ \E config \in BufferConfigs : InitDebugCapture(config, TRUE)
  \/ \E tempStack \in TempStacks : ConsoleCall("error", <<StringValue("a")>>, tempStack)
  \/ \E event \in ErrorEvents, tempStack \in TempStacks :
       WindowErrorEvent(event, tempStack)
  \/ \E reason \in RejectionReasons, tempStack \in TempStacks :
       UnhandledRejectionEvent(reason, tempStack)
  \/ ApiLog("event", "manual", NoMeta)
  \/ ApiClearLogs
  \/ WrappedFetchCall(StringInput("/api?x=1"), NoInit)
  \/ \E call \in inflight, outcome \in BufferFetchOutcomes, tempStack \in TempStacks :
       FetchSettle(call, outcome, tempStack)
  \/ Reload

SpecBuffer == InitBrowser /\ [][NextBuffer]_vars

(***************************************************************************)
(* SpecConsole: the console wrappers on every kind of argument             *)
(***************************************************************************)
ConsoleConfigs ==
  {[isEnabled |-> CustomPolicy, maxStringLength |-> 16, captureWarnings |-> w,
    captureInfo |-> i] : w \in BOOLEAN, i \in BOOLEAN}

\* an object JSON.stringify serialises
PlainObject == ObjectValue(TRUE, "{}", TRUE, "[object Object]")
\* an object with a BigInt field: JSON.stringify throws, String() answers
BigIntObject == ObjectValue(FALSE, "", TRUE, "[object Object]")
\* a prototype-less object with a BigInt field: JSON.stringify and String() throw
OpaqueObject == ObjectValue(FALSE, "", FALSE, "")

ConsoleArgs ==
  {<<ErrorValue("boom", "at f")>>,
   <<StringValue("a long message"), PlainObject>>,
   <<BigIntObject>>,
   <<StringValue("a"), OpaqueObject>>}

NextConsole ==
  \/ \E config \in ConsoleConfigs : InitDebugCapture(config, TRUE)
  \/ \E method \in ConsoleMethods, args \in ConsoleArgs, tempStack \in TempStacks :
       ConsoleCall(method, args, tempStack)
  \/ ApiClearLogs

SpecConsole == InitBrowser /\ [][NextConsole]_vars

(***************************************************************************)
(* SpecFetch: the fetch wrapper                                            *)
(***************************************************************************)
FetchConfigs ==
  {[isEnabled |-> CustomPolicy, maxBufferSize |-> 1, injectSessionHeader |-> h,
    onlyFetchFailures |-> f] : h \in BOOLEAN, f \in BOOLEAN}

\* the input and the init of a call
FetchCalls ==
  {<<StringInput("/api?x=1"), NoInit>>,
   <<StringInput("/api?x=1"), [method |-> "POST", headers |-> [accept |-> "*/*"]]>>,
   <<UrlInput("https://api.io/v1#top"),
     [headers |-> SetKey(NoHeaders, InjectedHeaderName, "spoofed")]>>,
   <<RequestInput("https://api.io/v1", "POST", [accept |-> "text/plain"]), NoInit>>,
   <<StringInput("/api"), [headers |-> SetKey(NoHeaders, "bad name", "x")]>>}

FetchOutcomes ==
  {Resolved(Response(200, "OK")), Resolved(Response(500, "ERR")),
   Rejected(ErrorValue("Failed to fetch", "at h")), Rejected(StringValue("aborted"))}

NextFetch ==
  \/ \E config \in FetchConfigs : InitDebugCapture(config, TRUE)
  \/ \E args \in FetchCalls : WrappedFetchCall(args[1], args[2])
  \/ \E call \in inflight, outcome \in FetchOutcomes, tempStack \in TempStacks :
       FetchSettle(call, outcome, tempStack)
  \/ Tick
  \/ Reload

SpecFetch == InitBrowser /\ [][NextFetch]_vars

(***************************************************************************)
(* cli/index.ts: redactString.  A pattern of REDACTION_PATTERNS is matched *)
(* the way the regular expression engine matches it: leftmost, greedy; in  *)
(* each of the five patterns a repeated class is followed by characters    *)
(* outside the class, so a greedy run never has to give characters back.   *)
(***************************************************************************)
Placeholder == "[REDACTED]"

LowerLetters == "abcdefghijklmnopqrstuvwxyz"
UpperLetters == "ABCDEFGHIJKLMNOPQRSTUVWXYZ"
Digits == "0123456789"

\* \s, as far as the texts of the model go
SpaceChars == " \t\n"
\* [A-Za-z0-9]
AlnumChars == LowerLetters \o UpperLetters \o Digits
\* [A-Za-z0-9\-_]
TokenChars == AlnumChars \o "-_"

\* ch is one of the characters of chars
InChars(chars, ch) == \E k \in 1..Len(chars) : CharAt(chars, k) = ch

\* the character as the i flag compares it
Folded(ch) ==
  IF InChars(UpperLetters, ch) THEN CharAt(LowerLetters, IndexOf(UpperLetters, ch)) ELSE ch

\* literal stands in text at index i; with ignoreCase the literal is lower case
LiteralAt(text, i, literal, ignoreCase) ==
  /\ i + Len(literal) - 1 <= Len(text)
  /\ \A k \in 1..Len(literal) :
       (IF ignoreCase THEN Folded(CharAt(text, i + k - 1)) ELSE CharAt(text, i + k - 1))
         = CharAt(literal, k)

\* the index after the longest run, starting at index i, of characters that
\* are in chars (that are not in chars, when negated)
RunEnd(text, i, chars, negated) ==
  CHOOSE j \in i..(Len(text) + 1) :
    /\ \A k \in i..(j - 1) : InChars(chars, CharAt(text, k)) # negated
    /\ j <= Len(text) => InChars(chars, CharAt(text, j)) = negated

\* index after an optional dot at index i
SkipDot(text, i) == IF i <= Len(text) /\ CharAt(text, i) = "." THEN i + 1 ELSE i

\* /authorization:\s*[^\s\n]+/gi and /cookie:\s*[^\s\n]+/gi matched at index
\* i: the index after the match, 0 when there is none
HeaderMatchEnd(text, i, name) ==
  IF ~LiteralAt(text, i, name, TRUE)
  THEN 0
  ELSE LET value == RunEnd(text, i + Len(name), SpaceChars, FALSE)
           end == RunEnd(text, value, SpaceChars, TRUE)
       IN  IF end > value THEN end ELSE 0

\* /Bearer\s+[A-Za-z0-9\-_]+\.?[A-Za-z0-9\-_]*\.?[A-Za-z0-9\-_]*/gi
BearerMatchEnd(text, i) ==
  IF ~LiteralAt(text, i, "bearer", TRUE)
  THEN 0
  ELSE LET gap == i + 6
           token == RunEnd(text, gap, SpaceChars, FALSE)
           first == RunEnd(text, token, TokenChars, FALSE)
           second == RunEnd(text, SkipDot(text, first), TokenChars, FALSE)
           third == RunEnd(text, SkipDot(text, second), TokenChars, FALSE)
       IN  IF token > gap /\ first > token THEN third ELSE 0

\* /eyJ[A-Za-z0-9\-_]+\.eyJ[A-Za-z0-9\-_]+\.[A-Za-z0-9\-_]+/g
JwtMatchEnd(text, i) ==
  IF ~LiteralAt(text, i, "eyJ", FALSE)
  THEN 0
  ELSE LET first == RunEnd(text, i + 3, TokenChars, FALSE)
       IN  IF ~(first > i + 3 /\ LiteralAt(text, first, ".eyJ", FALSE))
           THEN 0
           ELSE LET second == RunEnd(text, first + 4, TokenChars, FALSE)
                IN  IF ~(second > first + 4 /\ LiteralAt(text, second, ".", FALSE))
                    THEN 0
                    ELSE LET third == RunEnd(text, second + 1, TokenChars, FALSE)
                         IN  IF third > second + 1 THEN third ELSE 0

\* the {20,} of the apiKey pattern
ApiKeyMinLength == 20

\* /sk[-_][A-Za-z0-9]+/g
ApiKeyMatchEndAnyLength(text, i) ==
  IF ~(LiteralAt(text, i, "sk-", FALSE) \/ LiteralAt(text, i, "sk_", FALSE))
  THEN 0
  ELSE LET end == RunEnd(text, i + 3, AlnumChars, FALSE)
       IN  IF end - (i + 3) >= 1 THEN end ELSE 0

\* /sk[-_][A-Za-z0-9]{20,}/g
ApiKeyMatchEnd(text, i) ==
  IF ~(LiteralAt(text, i, "sk-", FALSE) \/ LiteralAt(text, i, "sk_", FALSE))
  THEN 0
  ELSE LET end == RunEnd(text, i + 3, AlnumChars, FALSE)
       IN  IF end - (i + 3) >= ApiKeyMinLength THEN end ELSE 0

\* REDACTION_PATTERNS, in order
RuleNames == <<"authorizationHeader", "cookieHeader", "bearerToken", "jwtToken", "apiKey">>

\* the pattern of rule name matched at index i of text
MatchEnd(name, text, i) ==
  CASE name = "authorizationHeader" -> HeaderMatchEnd(text, i, "authorization:")
    [] name = "cookieHeader" -> HeaderMatchEnd(text, i, "cookie:")
    [] name = "bearerToken" -> BearerMatchEnd(text, i)
    [] name = "jwtToken" -> JwtMatchEnd(text, i)
    [] OTHER -> ApiKeyMatchEnd(text, i)

\* the matches of the global pattern in text from index i on, left to right,
\* each the index it starts at and the index after it
RECURSIVE Scan(_, _, _)
Scan(name, text, i) ==
  IF i > Len(text)
  THEN <<>>
  ELSE LET end == MatchEnd(name, text, i)
       IN  IF end > 0
           THEN <<[from |-> i, to |-> end]>> \o Scan(name, text, end)
           ELSE Scan(name, text, i + 1)

\* result.match(pattern): null when nothing matches, else the matched texts
match(text, name) ==
  LET found == Scan(name, text, 1)
  IN  [isNull |-> found = <<>>,
       texts |-> [k \in 1..Len(found) |-> SubSeq(text, found[k].from, found[k].to - 1)]]

\* text from index i on with every match replaced by the placeholder
RECURSIVE ReplacedFrom(_, _, _)
ReplacedFrom(name, text, i) ==
  IF i > Len(text)
  THEN ""
  ELSE LET end == MatchEnd(name, text, i)
       IN  IF end > 0
           THEN Placeholder \o ReplacedFrom(name, text, end)
           ELSE CharAt(text, i) \o ReplacedFrom(name, text, i + 1)

\* replace without the g flag: the first match only
replaceFirstOnly(text, name) ==
  LET found == Scan(name, text, 1)
  IN  IF found = <<>>
      THEN text
      ELSE SubSeq(text, 1, found[1].from - 1) \o Placeholder
             \o SubSeq(text, found[1].to, Len(text))

\* result.replace(pattern, '[REDACTED]')
replace(text, name) == ReplacedFrom(name, text, 1)

\* a report with every counter at zero
ZeroReport ==
  [totalRedactions |-> 0,
   byRule |-> [authorizationHeader |-> 0, cookieHeader |-> 0, bearerToken |-> 0,
               jwtToken |-> 0, apiKey |-> 0]]

\* a rule with matches counted as one redaction
CountedOnce(matches) == 1

\* matches.length
Counted(matches) == Len(matches.texts)

\* the report after the loop body counted the matches of rule name
Reported(rep, name, matches) ==
  IF ~matches.isNull
  THEN [rep EXCEPT !.byRule[name] = @ + Counted(matches),
                   !.totalRedactions = @ + Counted(matches)]
  ELSE rep

\* the patterns with the jwtToken rule before the bearerToken rule
RuleOrderJwtFirst ==
  <<"authorizationHeader", "cookieHeader", "jwtToken", "bearerToken", "apiKey">>

\* the order in which the loop takes the patterns
RuleOrder == RuleNames

\* the loop of redactString from the k-th pattern on
RECURSIVE RedactFrom(_, _, _)
RedactFrom(k, result, rep) ==
  IF k > Len(RuleOrder)
  THEN [result |-> result, report |-> rep]
  ELSE RedactFrom(k + 1, replace(result, RuleOrder[k]),
                  Reported(rep, RuleOrder[k], match(result, RuleOrder[k])))

\* redactString(input, report): the string returned and the report after it
redactString(input, rep) == RedactFrom(1, input, rep)

(***************************************************************************)
(* server/index.ts: the session header on the server.  A request is a      *)
(* Request, a Headers object, an object holding a Headers object or a      *)
(* plain object of headers, or such a plain object itself; its headers are *)
(* a function from the names as the sender or the host wrote them.         *)
(***************************************************************************)
\* str in lower case
RECURSIVE Lowered(_)
Lowered(str) ==
  IF Len(str) = 0 THEN "" ELSE Folded(SubSeq(str, 1, 1)) \o Lowered(SubSeq(str, 2, Len(str)))

\* Headers.prototype.get(name): names compare without regard to case; null
\* when there is no such header
HeadersGet(headers, name) ==
  IF \E k \in DOMAIN headers : Lowered(k) = Lowered(name)
  THEN headers[CHOOSE k \in DOMAIN headers : Lowered(k) = Lowered(name)]
  ELSE Null

\* object[key] of a plain object
PlainGet(object, key) == IF key \in DOMAIN object THEN object[key] ELSE Undefined

\* a || b || null on strings and undefined
FirstTruthy(a, b) ==
  IF a # Undefined /\ a # "" THEN a
  ELSE IF b # Undefined /\ b # "" THEN b
  ELSE Null

\* PlainLookup comparing the names without regard to case
PlainLookupAnyCase(headers) == HeadersGet(headers, DEBUG_SESSION_HEADER)

\* headers[DEBUG_SESSION_HEADER] || headers[DEBUG_SESSION_HEADER.toLowerCase()] || null
PlainLookup(headers) ==
  FirstTruthy(PlainGet(headers, DEBUG_SESSION_HEADER),
              PlainGet(headers, Lowered(DEBUG_SESSION_HEADER)))

\* getDebugSessionId(request) of server/index.ts
getDebugSessionIdFrom(request) ==
  IF request.kind \in {"Request", "Headers", "HeadersHolder"}
  THEN HeadersGet(request.headers, DEBUG_SESSION_HEADER)
  ELSE PlainLookup(request.headers)

\* getDebugLogPrefix(request)
getDebugLogPrefix(request) ==
  LET sessionId == getDebugSessionIdFrom(request)
  IN  IF sessionId # Null /\ sessionId # ""
      THEN "[debugSessionId=" \o sessionId \o "]"
      ELSE ""

\* withDebugSession(handler)(request): the lines it logs, the calls of the
\* handler it makes and what it returns; the handler returns response
withDebugSession(request, response) ==
  LET sessionId == getDebugSessionIdFrom(request)
  IN  [logged |-> IF sessionId # Null /\ sessionId # ""
                  THEN <<"[debugSessionId=" \o sessionId \o "] " \o request.method
                           \o " " \o UrlPathname(request.url)>>
                  ELSE <<>>,
       handled |-> <<[request |-> request, sessionId |-> sessionId]>>,
       returned |-> response]

\* the session header as requests carry it: missing, set, set and empty,
\* under the lower-case name or as senders capitalise it
RequestHeaders ==
  {[accept |-> "*/*"]}
    \cup {SetKey([accept |-> "*/*"], name, value) :
            name \in {DEBUG_SESSION_HEADER, "X-Debug-Session-Id"}, value \in {"sid-1", ""}}

ServerRequests ==
  {[kind |-> kind, headers |-> headers, method |-> method,
    url |-> "https://app.io/api/users?x=1"] :
     kind \in {"Request", "Headers", "HeadersHolder", "PlainHolder", "PlainHeaders"},
     headers \in RequestHeaders, method \in {"GET", "POST"}}

\* a server process: no window, no capture session
InitServer ==
  /\ PageLoaded /\ ~hasWindow /\ ~previewEnv
  /\ subject \in ServerRequests
  /\ report = Null

GetDebugSessionIdFrom ==
  /\ last.op = "load"
  /\ last' = [op |-> "getDebugSessionId", result |-> getDebugSessionIdFrom(subject)]
  /\ UNCHANGED <<capture, library, client>>

GetDebugLogPrefix ==
  /\ last.op = "load"
  /\ last' = [op |-> "getDebugLogPrefix", result |-> getDebugLogPrefix(subject)]
  /\ UNCHANGED <<capture, library, client>>

\* a route wrapped by withDebugSession receives the request
WithDebugSession(response) ==
  /\ last.op = "load"
  /\ subject.kind = "Request"
  /\ LET out == withDebugSession(subject, response)
     IN  last' = [op |-> "withDebugSession", logged |-> out.logged,
                  handled |-> out.handled, returned |-> out.returned,
                  response |-> response]
  /\ UNCHANGED <<capture, library, client>>

NextServer ==
  \/ GetDebugSessionIdFrom
  \/ GetDebugLogPrefix
  \/ \E response \in {Response(200, "OK"), Response(500, "ERR")} : WithDebugSession(response)

SpecServer == InitServer /\ [][NextServer]_vars

(***************************************************************************)
(* redaction.ts called directly: truncateString                            *)
(***************************************************************************)
\* the text the strings of the model are cut from
Alphabet == "abcdefghijklmnopqrstuvwxyz0123456789ABCDEFGHIJKLMNOPQRSTUVWXYZ"

\* the first n characters of the alphabet
Prefix(n) == SubSeq(Alphabet, 1, n)

TruncateInputs ==
  [str : {Prefix(n) : n \in 0..MaxStrLen}, maxLength : 1..MaxMaxLength]

\* a browser page whose script calls the helpers
HelperPage == PageLoaded /\ hasWindow /\ hasStorage /\ ~previewEnv

InitTruncate == HelperPage /\ subject \in TruncateInputs /\ report = Null

\* truncateString(subject.str, subject.maxLength)
TruncateString ==
  /\ last.op = "load"
  /\ last' = [op |-> "truncateString",
              result |-> truncateString(subject.str, subject.maxLength)]
  /\ UNCHANGED <<capture, library, client>>

NextTruncate == TruncateString

SpecTruncate == InitTruncate /\ [][NextTruncate]_vars

(***************************************************************************)
(* redaction.ts called directly: sanitizeUrl, next to a capture session    *)
(* whose entries carry sanitized URLs                                      *)
(***************************************************************************)
UrlBases == {"https://app.io", "http://a.b/p", "/api/users", "not-a-url", ""}

UrlTails == {"", "?x=1", "#top", "?x=1#top", "#top?x=1", "?", "#", "/q?x#y"}

SanitizeInputs == {base \o tail : base \in UrlBases, tail \in UrlTails}

InitSanitize == HelperPage /\ subject \in SanitizeInputs /\ report = Null

\* sanitizeUrl(subject)
SanitizeUrl ==
  /\ last' = [op |-> "sanitizeUrl", result |-> sanitizeUrl(subject)]
  /\ UNCHANGED <<capture, library, client>>

SanitizeConfigs == {[isEnabled |-> CustomPolicy, onlyFetchFailures |-> FALSE]}

SanitizeFetchCalls ==
  {<<StringInput("/api?x=1#frag"), NoInit>>,
   <<UrlInput("https://api.io/v1#top"), NoInit>>}

NextSanitize ==
  \/ SanitizeUrl
  \/ \E config \in SanitizeConfigs : InitDebugCapture(config, TRUE)
  \/ \E args \in SanitizeFetchCalls : WrappedFetchCall(args[1], args[2])
  \/ \E call \in inflight, tempStack \in TempStacks :
       FetchSettle(call, Resolved(Response(200, "OK")), tempStack)
  \/ \E event \in ErrorEvents, tempStack \in TempStacks :
       WindowErrorEvent(event, tempStack)

SpecSanitize == InitSanitize /\ [][NextSanitize]_vars

(***************************************************************************)
(* SpecConcurrent: wrapped fetch calls that overlap                        *)
(***************************************************************************)
ConcurrentConfigs ==
  {[isEnabled |-> CustomPolicy, maxBufferSize |-> MaxBufferSize, onlyFetchFailures |-> f] :
     f \in BOOLEAN}

ConcurrentCalls ==
  {<<StringInput("/a?x=1"), NoInit>>, <<StringInput("/b#f"), [method |-> "POST"]>>}

NextConcurrent ==
  \/ \E config \in ConcurrentConfigs : InitDebugCapture(config, TRUE)
  \/ \E args \in ConcurrentCalls : ConcurrentFetchCall(args[1], args[2])
  \/ \E call \in inflight, outcome \in FetchOutcomes, tempStack \in TempStacks :
       FetchSettle(call, outcome, tempStack)
  \/ Tick

SpecConcurrent == InitBrowser /\ [][NextConcurrent]_vars

(***************************************************************************)
(* SpecStorage: sessions that find a token in sessionStorage which this    *)
(* module did not write                                                    *)
(***************************************************************************)
\* values found under the key: the empty string and text that is no token
StoredTokens == {"", "not a token"}

NextStorage ==
  \/ \E config \in BufferConfigs : InitDebugCapture(config, TRUE)
  \/ \E value \in StoredTokens : HostStoresToken(value)
  \/ ApiLog("event", "manual", NoMeta)
  \/ Reload
  \/ NewBrowsingSession

SpecStorage == InitBrowser /\ [][NextStorage]_vars

(***************************************************************************)
(* SpecBundle: the panel exports the buffer to the local server            *)
(***************************************************************************)
BundleConfigs ==
  {[isEnabled |-> CustomPolicy, maxBufferSize |-> n, onlyFetchFailures |-> f] :
     n \in 1..MaxBufferSize, f \in BOOLEAN}

\* how the request to the local server ends: refused or timed out by the
\* platform, or answered
BundleOutcomes ==
  {Rejected(ErrorValue("Failed to fetch", "at h")), Rejected(StringValue("timeout")),
   Resolved(Response(200, "OK")), Resolved(Response(502, "Bad Gateway"))}

BundleBodies ==
  {Unparseable,
   Parsed([success |-> TRUE, bundlePath |-> "/tmp/bundle"]),
   Parsed([success |-> FALSE, error |-> "No logs"])}

NextBundle ==
  \/ \E config \in BundleConfigs : InitDebugCapture(config, TRUE)
  \/ ApiLog("event", "manual", NoMeta)
  \/ CreateBundleOnServer(DEFAULT_SERVER_URL)
  \/ \E request \in pending, outcome \in BundleOutcomes, body \in BundleBodies,
        tempStack \in TempStacks :
       BundleSettle(request, outcome, body, tempStack)
  \/ Tick
  \/ Reload

SpecBundle == InitBrowser /\ [][NextBundle]_vars

(***************************************************************************)
(* SpecProbe: a page that has not started capture asks whether the local   *)
(* server runs                                                             *)
(***************************************************************************)
ProbeUrls == {DEFAULT_SERVER_URL, "http://localhost:4000"}

\* how a request to the local server ends: refused, aborted after
\* PROBE_TIMEOUT_MS, or answered
ProbeOutcomes ==
  {Rejected(ErrorValue("The operation was aborted", "")),
   Resolved(Response(200, "OK")), Resolved(Response(503, "Service Unavailable"))}

ProbeBodies == {Unparseable, Parsed([version |-> "1.2.0", projectName |-> "shop"])}

ProbeWaits == {PROBE_CACHE_MS - 1, PROBE_CACHE_MS}

NextProbe ==
  \/ \E serverUrl \in ProbeUrls : ProbeServer(serverUrl)
  \/ \E serverUrl \in ProbeUrls : RefreshServerStatus(serverUrl)
  \/ ClearServerStatusCache
  \/ \E request \in pending, outcome \in ProbeOutcomes, body \in ProbeBodies,
        tempStack \in TempStacks :
       HealthSettle(request, outcome, body, tempStack)
  \/ \E request \in pending, outcome \in ProbeOutcomes, body \in ProbeBodies,
        tempStack \in TempStacks :
       ConfigSettle(request, outcome, body, tempStack)
  \/ \E ms \in ProbeWaits : Wait(ms)

SpecProbe == InitBrowser /\ [][NextProbe]_vars

(***************************************************************************)
(* cli/index.ts: redactString called on the lines of a log, all calls on   *)
(* one report.  A line is a credential (core) with text before and after   *)
(* it; subject keeps the line, the text the next call gets, the number of  *)
(* calls made and how many matches each rule replaced so far.              *)
(***************************************************************************)
BearerJwt == "Bearer eyJhb.eyJzd.dozj"

RedactPrefixes == {"", "Token was: ", "Authorization: ", "cookie:", "Bearer "}

RedactCores ==
  {BearerJwt, "bearer  tok", "eyJhb.eyJzd.dozj", "sk-12345678901234567890",
   "sk-short", "sk_1234567890123456789", "sk_12345678901234567890a",
   "Authorization: secret"}

RedactSuffixes == {"", " ok", ".x", " Bearer tok"}

\* lines the host redacts after the first one
RedactLines == {"authorization: a cookie: b=c", "Bearer a Bearer b"}

NoneReplaced ==
  [authorizationHeader |-> 0, cookieHeader |-> 0, bearerToken |-> 0, jwtToken |-> 0,
   apiKey |-> 0]

\* how many matches each pattern has when the patterns are applied in the
\* order of REDACTION_PATTERNS, each to the text the one before it left
ReplacedIn(text) ==
  LET t1 == replace(text, "authorizationHeader")
      t2 == replace(t1, "cookieHeader")
      t3 == replace(t2, "bearerToken")
      t4 == replace(t3, "jwtToken")
  IN  [authorizationHeader |-> Len(Scan("authorizationHeader", text, 1)),
       cookieHeader |-> Len(Scan("cookieHeader", t1, 1)),
       bearerToken |-> Len(Scan("bearerToken", t2, 1)),
       jwtToken |-> Len(Scan("jwtToken", t3, 1)),
       apiKey |-> Len(Scan("apiKey", t4, 1))]

\* counters added rule by rule
Sum(a, b) == [name \in DOMAIN a |-> a[name] + b[name]]

RedactSubjects ==
  {[pre |-> pre, core |-> core, post |-> post, text |-> pre \o core \o post,
    calls |-> 0, replaced |-> NoneReplaced] :
     pre \in RedactPrefixes, core \in RedactCores, post \in RedactSuffixes}

InitRedact == HelperPage /\ subject \in RedactSubjects /\ report = ZeroReport

\* subject.text = redactString(subject.text, report)
RedactString ==
  /\ subject.calls < MaxRedactCalls
  /\ LET out == redactString(subject.text, report)
     IN  /\ report' = out.report
         /\ subject' = [subject EXCEPT !.text = out.result, !.calls = @ + 1,
                                       !.replaced = Sum(@, ReplacedIn(subject.text))]
         /\ last' = [op |-> "redactString", input |-> subject.text,
                     result |-> out.result,
                     byRule |-> [name \in DOMAIN report.byRule |->
                                   out.report.byRule[name] - report.byRule[name]]]
  /\ UNCHANGED <<capture, client>>

\* the host goes on to another line
NextLine(line) ==
  /\ subject.calls \in 1..(MaxRedactCalls - 1)
  /\ subject.text # line
  /\ subject' = [subject EXCEPT !.pre = "", !.core = line, !.post = "", !.text = line]
  /\ last' = [op |-> "nextLine"]
  /\ UNCHANGED <<capture, client, report>>

NextRedact ==
  \/ RedactString
  \/ \E line \in RedactLines : NextLine(line)

SpecRedact == InitRedact /\ [][NextRedact]_vars

(***************************************************************************)
(* The host reading the buffer through the handle and working on what it   *)
(* got.                                                                    *)
(***************************************************************************)
HostTexts == {"edited"}

NextSnapshot ==
  \/ \E config \in BufferConfigs : InitDebugCapture(config, TRUE)
  \/ ApiLog("event", "manual", NoMeta)
  \/ ApiClearLogs
  \/ GetLogs
  \/ \E op \in ArrayOps : HostChangesArray(op)
  \/ \E i \in 1..MaxBufferSize, text \in HostTexts : HostWritesEntry(i, text)
  \/ Reload

SpecSnapshot == InitBrowser /\ [][NextSnapshot]_vars

(***************************************************************************)
(* Properties                                                              *)
(***************************************************************************)

\* C1: while the session is active with a positive maxBufferSize, the buffer
\* never holds more than maxBufferSize entries, whatever was appended, logged
\* or cleared.
C1_BufferBounded ==
  (Active(state) /\ state.config.maxBufferSize >= 1)
    => Len(state.buffer) <= state.config.maxBufferSize

\* more entries were appended than fit and the buffer is full
C1_Witness ==
  /\ Active(state)
  /\ Len(appended) > state.config.maxBufferSize
  /\ Len(state.buffer) = state.config.maxBufferSize

\* C2: after more than maxBufferSize appends with no clear in between, the
\* buffer is exactly the last maxBufferSize appended entries, in append order.
C2_FifoEviction ==
  (Active(state) /\ Len(appended) > state.config.maxBufferSize)
    => state.buffer = SubSeq(appended, Len(appended) - state.config.maxBufferSize + 1,
                             Len(appended))

\* an error-level entry was evicted while an older-than-newest entry of
\* another level and type stayed
C2_Witness ==
  /\ Active(state)
  /\ state.config.maxBufferSize >= 2
  /\ Len(appended) > state.config.maxBufferSize
  /\ Len(state.buffer) >= 2
  /\ appended[1].level = "error"
  /\ state.buffer[1].level = "event"
  /\ state.buffer[1].type # state.buffer[2].type

\* the ambient primitives carry at most one capture wrapper each and the
\* window at most one listener per event
InstalledAtMostOnce ==
  /\ \A method \in ConsoleMethods : console[method] <= 1
  /\ windowFetch <= 1
  /\ listeners.error <= 1
  /\ listeners.unhandledrejection <= 1

\* a step that is an initDebugCapture call on an active session
RepeatedInitStep ==
  /\ Active(state)
  /\ last'.op = "initDebugCapture"

\* C3: once the session is active, an initDebugCapture call with any
\* configuration returns a handle, leaves the session (config, sessionId,
\* buffer, saved originals) and the installed instrumentation as they were,
\* and no primitive is ever wrapped twice in one page load.
C3_ReinitIsNoOp ==
  /\ []InstalledAtMostOnce
  /\ [][RepeatedInitStep =>
          /\ last'.returned = ApiHandle
          /\ state' = state
          /\ console' = console
          /\ windowFetch' = windowFetch
          /\ listeners' = listeners
          /\ customIsEnabled' = customIsEnabled
          /\ sessionStorage' = sessionStorage]_vars

\* a repeated initDebugCapture call returned on a session that holds entries
C3_Witness ==
  /\ last.op = "initDebugCapture"
  /\ last.repeated
  /\ Active(state)
  /\ Len(state.buffer) > 0
  /\ console.error = 1

\* C4: an initDebugCapture call whose policy answered false returns null and
\* leaves the page uninstrumented: no session, native console and fetch, no
\* listeners; getDebugCapture() is null and isDebugModeActive() false.
C4_DisabledIsUninstrumented ==
  (last.op = "initDebugCapture" /\ last.evaluated /\ ~last.enabled)
    => /\ last.returned = Null
       /\ state = NullState
       /\ console = NativeConsole
       /\ windowFetch = 0
       /\ listeners = NoListeners
       /\ getDebugCapture = Null
       /\ ~isDebugModeActive

\* a custom policy answered false
C4_Witness ==
  /\ last.op = "initDebugCapture"
  /\ last.evaluated
  /\ ~last.enabled
  /\ customIsEnabled # Null

\* C5: every call of a wrapped console method calls the saved original
\* exactly once with the same arguments, also when an argument cannot be
\* stringified.
C5_ConsoleAlwaysForwards ==
  last.op = "console" => (last.nativeCalls = 1 /\ last.nativeArgs = last.args)

\* C6: every call of the wrapped fetch delegates exactly once to the saved
\* original fetch and settles as the delegated call settles.
C6_FetchAlwaysDelegates ==
  /\ last.op = "fetch" => Len(last.delegations) = 1
  /\ last.op = "fetchSettle" => last.result = last.outcome

\* the entry the last fetch settlement pushed
LastPushed == last.pushed[1]

C8_ResponseCapture ==
  (last.op = "fetchSettle" /\ last.outcome.kind = "resolved")
    => /\ Len(last.pushed) \in {0, 1}
       /\ Len(last.pushed) = 1
            <=> (~state.config.onlyFetchFailures \/ ~last.outcome.response.ok)
       /\ Len(last.pushed) = 1
            => /\ state.buffer[Len(state.buffer)] = LastPushed
               /\ LastPushed.type = "fetch"
               /\ LastPushed.level =
                    (IF last.outcome.response.ok THEN "event" ELSE "error")
               /\ LastPushed.meta =
                    [method |-> last.call.method,
                     status |-> last.outcome.response.status,
                     durationMs |-> LastPushed.ts - last.call.startTime]

\* a successful response was recorded because every call is captured
C8_Witness ==
  /\ last.op = "fetchSettle"
  /\ last.outcome.kind = "resolved"
  /\ last.outcome.response.ok
  /\ ~state.config.onlyFetchFailures
  /\ Len(last.pushed) = 1
  /\ LastPushed.meta.durationMs > 0

\* C9: with injectSessionHeader on, every call handed to the original fetch
\* carries x-debug-session-id with the session's id; with it off, the
\* caller's init is handed on as it is.
C9_SessionHeader ==
  (last.op = "fetch" /\ Len(last.delegations) = 1)
    => IF state.config.injectSessionHeader
       THEN /\ "headers" \in DOMAIN last.delegations[1].init
            /\ DEBUG_SESSION_HEADER \in DOMAIN last.delegations[1].init.headers
            /\ last.delegations[1].init.headers[DEBUG_SESSION_HEADER] = state.sessionId
       ELSE last.delegations[1].init = last.call.init

\* a call whose caller set the header itself was delegated with injection on
C9_Witness ==
  /\ last.op = "fetch"
  /\ Len(last.delegations) = 1
  /\ state.config.injectSessionHeader
  /\ "headers" \in DOMAIN last.call.init
  /\ DEBUG_SESSION_HEADER \in DOMAIN last.call.init.headers

\* every buffered entry carries the session's id
EntriesCarrySessionId ==
  Active(state)
    => \A i \in 1..Len(state.buffer) : state.buffer[i].debugSessionId = state.sessionId

\* C10: every buffered entry carries the session's sessionId, and the
\* sessionId of a session never changes once it is initialised.
C10_SessionIdStable ==
  /\ []EntriesCarrySessionId
  /\ [][(state.initialized /\ state'.initialized)
          => state'.sessionId = state.sessionId]_vars

\* a session of a later page load, with its own id, holds entries
C10_Witness ==
  /\ Active(state)
  /\ Len(state.buffer) > 0
  /\ state.sessionId = SessionIdOf(2)

\* the tokens getOrCreateSessionId returned in this browsing session are one
\* token, it is none of an earlier browsing session, and it is the stored one
OneTokenPerBrowsingSession ==
  /\ Cardinality(observed.issued) <= 1
  /\ observed.issued \cap observed.retired = {}
  /\ hasStorage => \A id \in observed.issued : sessionStorage.sessionId = id

\* C11 as stated: within one browsing session every getOrCreateSessionId
\* call returns the same token, across reloads; a new browsing session gets a
\* different, freshly generated token, which is persisted.
C11_TokenStableAsStated == OneTokenPerBrowsingSession

\* C11, for pages that have sessionStorage: within one browsing session every
\* getOrCreateSessionId call returns the same token, across reloads; a new
\* browsing session gets a different, freshly generated token, which is
\* persisted.
C11_TokenStableWithStorage == hasStorage => OneTokenPerBrowsingSession

\* the second call of a second browsing session returned that session's token
C11_Witness ==
  /\ hasStorage
  /\ observed.calls = 2
  /\ observed.retired # {}
  /\ observed.issued = {state.sessionId}
  /\ last.op = "initDebugCapture"

\* C12: nothing the host does to the array getLogs() returned (adding,
\* removing or reordering elements, or writing a field of an entry in it)
\* changes what getLogs() and getLogCount() return afterwards.
C12_SnapshotIsolated ==
  last.op \in {"hostChangesArray", "hostWritesEntry"}
    => (getLogs = last.before /\ getLogCount = Len(last.before))

\* a step that is a toggleDebugMode call
ToggleStep == last'.op = "toggleDebugMode"

\* the persisted opt-in flag has another value after the step
FlagFlipped ==
  isKeyboardEnabled(sessionStorage') # isKeyboardEnabled(sessionStorage)

\* the installed wrappers and listeners are as they were
InstrumentationKept ==
  /\ console' = console
  /\ windowFetch' = windowFetch
  /\ listeners' = listeners

\* C13 as stated: every toggleDebugMode call flips the persisted opt-in flag,
\* forces exactly one page reload and leaves the live session (enabled flag,
\* buffer, wrappers, saved originals) as it was.
C13_ToggleAsStated ==
  [][ToggleStep =>
       /\ FlagFlipped
       /\ last'.reloads = 1
       /\ reloadRequested'
       /\ state' = state
       /\ InstrumentationKept]_vars

\* C13, with the refusals: a toggleDebugMode call that returns true or false
\* flips the persisted opt-in flag (where sessionStorage exists), calls
\* reload exactly once and leaves the live session as it was; a call that
\* returns null leaves the flag, calls no reload, and changes the session
\* at most by the warning it prints through the wrapped console.warn, which
\* is appended to the buffer.  No call changes the wrappers, the listeners,
\* the enabled flag, the config, the session id or the saved originals.
C13_ToggleFlipsAndReloads ==
  [][ToggleStep =>
       /\ InstrumentationKept
       /\ last'.returned # Null =>
            /\ hasStorage => FlagFlipped
            /\ last'.reloads = 1
            /\ reloadRequested'
            /\ state' = state
       /\ last'.returned = Null =>
            /\ ~FlagFlipped
            /\ last'.reloads = 0
            /\ reloadRequested' = reloadRequested
            /\ state' = addLogEntries(state, last'.pushed, now)
            /\ Len(last'.pushed) <= 1]_vars

\* an Active session holding entries was toggled off: the flag is cleared,
\* the reload is requested, the session still stands
C13_Witness ==
  /\ last.op = "toggleDebugMode"
  /\ last.returned = "false"
  /\ reloadRequested
  /\ ~isKeyboardEnabled(sessionStorage)
  /\ Active(state)
  /\ Len(state.buffer) > 0
  /\ console.error = 1

\* C14: once an initDebugCapture call of this page load has evaluated the
\* policy as false, the session is not Active and nothing is instrumented
\* for the rest of the page load, and the policy is evaluated only once.
C14_DisabledIsTerminal ==
  observed.rejected =>
    /\ observed.evaluations <= 1
    /\ ~Active(state)
    /\ console = NativeConsole
    /\ windowFetch = 0
    /\ listeners = NoListeners

\* C15: for every string and every positive maxLength, truncateString
\* returns a string of at most maxLength characters, and the string itself
\* when it is no longer than maxLength.
C15_TruncateBounded ==
  last.op = "truncateString" =>
    /\ Len(last.result) <= subject.maxLength
    /\ Len(subject.str) <= subject.maxLength => last.result = subject.str

\* C16: every buffered entry's message, and every stack that is not null,
\* is at most maxStringLength characters long, whichever path built it.
C16_EntryTextBounded ==
  Active(state) =>
    \A i \in 1..Len(state.buffer) :
      /\ Len(state.buffer[i].message) <= state.config.maxStringLength
      /\ state.buffer[i].stack # Null
           => Len(state.buffer[i].stack) <= state.config.maxStringLength

\* str holds neither a question mark nor a hash
NoQueryNoFragment(str) == IndexOf(str, "?") = 0 /\ IndexOf(str, "#") = 0

\* str up to its first question mark or hash
BeforeQueryAndFragment(str) == SubSeq(str, 1, UrlFirstOf(str, 1, {"?", "#"}) - 1)

\* C17: for every input string sanitizeUrl returns a string holding neither
\* '?' nor '#' and owing nothing to what followed them in the input (it is
\* what sanitizeUrl makes of the input cut before them); every buffered
\* entry's url is null or free of query and fragment.
C17_UrlSanitized ==
  /\ last.op = "sanitizeUrl" =>
       /\ NoQueryNoFragment(last.result)
       /\ last.result = sanitizeUrl(BeforeQueryAndFragment(subject))
  /\ Active(state) =>
       \A i \in 1..Len(state.buffer) :
         state.buffer[i].url = Null \/ NoQueryNoFragment(state.buffer[i].url)

\* a relative URL with a fragment before a query was sanitized, next to a
\* session that buffered a fetch entry
C17_Witness ==
  /\ last.op = "sanitizeUrl"
  /\ subject = "/api/users#top?x=1"
  /\ last.result = "/api/users"
  /\ Active(state)
  /\ \E i \in 1..Len(state.buffer) :
       state.buffer[i].type = "fetch" /\ state.buffer[i].url = "/api"

\* C18: after any sequence of redactString calls on one report that started
\* at zero, totalRedactions is the sum of the five byRule counters and each
\* counter is the number of matches its rule replaced in those calls, the
\* rules taken in the fixed order, each on the output of the one before.
C18_ReportCountsMatches ==
  /\ report.totalRedactions =
       report.byRule.authorizationHeader + report.byRule.cookieHeader
         + report.byRule.bearerToken + report.byRule.jwtToken + report.byRule.apiKey
  /\ report.byRule = subject.replaced

\* three calls were counted on one report, one of them on a line with two
\* matches of one rule
C18_Witness ==
  /\ subject.calls = 3
  /\ last.op = "redactString"
  /\ last.input = "Bearer a Bearer b"
  /\ last.byRule.bearerToken = 2
  /\ report.totalRedactions >= 4

\* C19: redacting the output of redactString again returns it unchanged
\* and counts nothing.
C19_RedactionIdempotent ==
  last.op = "redactString"
    => redactString(last.result, report) = [result |-> last.result, report |-> report]

\* text that holds the placeholder
Redacted(text) == \E i \in 1..Len(text) : LiteralAt(text, i, Placeholder, FALSE)

\* a second call was made on the output of the first, which held redactions
C19_Witness ==
  /\ last.op = "redactString"
  /\ subject.calls = 2
  /\ Redacted(last.input)
  /\ last.result = last.input
  /\ last.byRule = NoneReplaced
  /\ report.totalRedactions >= 2

\* the first call on a line whose credential is a JWT presented as a bearer token
BearerJwtRedacted ==
  /\ last.op = "redactString"
  /\ subject.core = BearerJwt
  /\ last.input = subject.pre \o subject.core \o subject.post

\* the credential became one placeholder between the redacted surroundings
\* and added one to bearerToken and nothing to any other counter
OnePlaceholderCountedAsBearer ==
  LET before == redactString(subject.pre, ZeroReport)
      after == redactString(subject.post, ZeroReport)
  IN  /\ last.result = before.result \o Placeholder \o after.result
      /\ last.byRule =
           Sum(Sum(before.report.byRule, after.report.byRule),
               [NoneReplaced EXCEPT !.bearerToken = 1])

\* str ends with the literal, letter case ignored
EndsWith(str, literal) ==
  /\ Len(str) >= Len(literal)
  /\ LiteralAt(str, Len(str) - Len(literal) + 1, literal, TRUE)

\* str without the whitespace at its end
RECURSIVE TrimmedEnd(_)
TrimmedEnd(str) ==
  IF Len(str) > 0 /\ InChars(SpaceChars, SubSeq(str, Len(str), Len(str)))
    THEN TrimmedEnd(SubSeq(str, 1, Len(str) - 1))
    ELSE str

\* the text before the credential makes an earlier match take the start of
\* the credential: a header name in front of it, or a Bearer and whitespace
TakenByEarlierMatch(pre) ==
  \/ EndsWith(TrimmedEnd(pre), "authorization:")
  \/ EndsWith(TrimmedEnd(pre), "cookie:")
  \/ (TrimmedEnd(pre) # pre /\ EndsWith(TrimmedEnd(pre), "bearer"))

KeyLength(token) ==
  IF /\ (LiteralAt(token, 1, "sk-", FALSE) \/ LiteralAt(token, 1, "sk_", FALSE))
     /\ RunEnd(token, 4, AlnumChars, FALSE) = Len(token) + 1
  THEN Len(token) - 3
  ELSE -1

\* the first call on a line whose credential is an sk- or sk_ token
KeyLineRedacted ==
  /\ last.op = "redactString"
  /\ KeyLength(subject.core) >= 0
  /\ last.input = subject.pre \o subject.core \o subject.post

\* a token of fewer than 20 characters is left in place and counted nowhere;
\* one of 20 or more becomes the placeholder and adds one to apiKey only
KeyRedactedByLength ==
  LET before == redactString(subject.pre, ZeroReport)
      after == redactString(subject.post, ZeroReport)
      around == Sum(before.report.byRule, after.report.byRule)
  IN  IF KeyLength(subject.core) < 20
        THEN /\ last.result = before.result \o subject.core \o after.result
             /\ last.byRule = around
        ELSE /\ last.result = before.result \o Placeholder \o after.result
             /\ last.byRule = Sum(around, [NoneReplaced EXCEPT !.apiKey = 1])

Contains(text, part) == \E i \in 1..Len(text) : LiteralAt(text, i, part, FALSE)

\* the tokens that follow the word Bearer and whitespace in text
BearerTokensOf(text) ==
  {SubSeq(text, RunEnd(text, i + 6, SpaceChars, FALSE), BearerMatchEnd(text, i) - 1) :
     i \in {j \in 1..Len(text) : BearerMatchEnd(text, j) > 0}}

\* C22: no bearer credential survives redaction: each token that follows the
\* word Bearer and whitespace in the input is absent from redactString's
\* output, whatever text precedes it.
C22_NoBearerTokenSurvives ==
  last.op = "redactString"
    => \A token \in BearerTokensOf(last.input) : ~Contains(last.result, token)

\* the export ended because the collector was unreachable or timed out (the
\* request was rejected) or answered with a body that does not parse
CollectorFailed ==
  /\ last.op = "createBundleOnServer"
  /\ (last.outcome.kind = "rejected" \/ ~last.body.parses)

\* C23: when the collector is unreachable, times out or answers with an
\* unparseable body, createBundleOnServer resolves with success false and
\* an error message, and the capture buffer, the session id and the enabled
\* state are the same after the call as before it.
C23_FailedExportLeavesCapture ==
  CollectorFailed =>
    /\ last.result.success = FALSE
    /\ "error" \in DOMAIN last.result
    /\ state.buffer = last.before.buffer
    /\ state.sessionId = last.before.sessionId
    /\ state.enabled = last.before.enabled

\* a token as generateSessionId makes them
WellFormed(token) == StartsWith(token, "sid-") /\ Len(token) > 4

\* initDebugCapture starts a session on a page whose sessionStorage holds a
\* value under the token's key that is no token
InitOnMalformedToken ==
  /\ ~state.initialized
  /\ state'.initialized
  /\ hasStorage
  /\ sessionStorage.sessionId # Null
  /\ ~WellFormed(sessionStorage.sessionId)

\* C24: a malformed session token found in storage is treated as absent:
\* getOrCreateSessionId generates a new well-formed token, persists it and
\* returns it, instead of returning the stored value.
C24_MalformedTokenReplaced ==
  [][InitOnMalformedToken =>
       /\ WellFormed(state'.sessionId)
       /\ sessionStorage'.sessionId = state'.sessionId]_vars

\* the page URL carries ?debug=1
UrlAsksForDebug == Contains(LocationHref, "?debug=1")

\* C25: under the default policy in a preview environment, debug mode is
\* enabled when the page URL carries ?debug=1 or when the opt-in flag was
\* set by the keyboard shortcut; outside a preview environment it is never
\* enabled.
C25_DefaultPolicy ==
  (last.op = "initDebugCapture" /\ last.evaluated /\ customIsEnabled = Null)
    => IF isPreviewEnvironment(customPreviewUrlPattern)
       THEN (UrlAsksForDebug \/ isKeyboardEnabled(sessionStorage)) => last.enabled
       ELSE ~last.enabled

\* the value of the request's x-debug-session-id header, null when missing
SessionHeaderOf(request) == HeadersGet(request.headers, DEBUG_SESSION_HEADER)

\* withDebugSession called the handler once with the request and its header
\* value and returned the handler's result
HandlerCalledOnce ==
  last.op = "withDebugSession" =>
    /\ last.handled = <<[request |-> subject, sessionId |-> SessionHeaderOf(subject)]>>
    /\ last.returned = last.response

\* C26 as stated: withDebugSession invokes the handler exactly once with the
\* request and the value of its x-debug-session-id header (null when it is
\* missing) and returns the handler's result; getDebugSessionId returns that
\* header value for a Request, a Headers object or a plain object with
\* headers; getDebugLogPrefix returns [debugSessionId=<id>] when the id is
\* present and the empty string otherwise.
C26_SessionHeaderAsStated ==
  /\ HandlerCalledOnce
  /\ last.op = "getDebugSessionId" => last.result = SessionHeaderOf(subject)
  /\ last.op = "getDebugLogPrefix" =>
       last.result = IF SessionHeaderOf(subject) \notin {Null, ""}
                     THEN "[debugSessionId=" \o SessionHeaderOf(subject) \o "]"
                     ELSE ""

\* the value a plain object of headers holds under the lower-case name,
\* null when it holds none or an empty one
PlainSessionHeaderOf(request) ==
  IF DEBUG_SESSION_HEADER \in DOMAIN request.headers
       /\ request.headers[DEBUG_SESSION_HEADER] # ""
  THEN request.headers[DEBUG_SESSION_HEADER]
  ELSE Null

\* what the amended statement expects of getDebugSessionId
NamedSessionId(request) ==
  IF request.kind \in {"PlainHolder", "PlainHeaders"}
  THEN PlainSessionHeaderOf(request)
  ELSE SessionHeaderOf(request)

\* C26 amended: the same for withDebugSession; getDebugSessionId returns the
\* header value for a Request, a Headers object or an object holding one,
\* and for plain objects the value under the lower-case name, null when
\* that is missing or empty; getDebugLogPrefix returns [debugSessionId=<id>]
\* when getDebugSessionId returns a non-empty id and the empty string
\* otherwise.
C26_SessionHeaderRead ==
  /\ HandlerCalledOnce
  /\ last.op = "getDebugSessionId" => last.result = NamedSessionId(subject)
  /\ last.op = "getDebugLogPrefix" =>
       last.result = IF NamedSessionId(subject) \notin {Null, ""}
                     THEN "[debugSessionId=" \o NamedSessionId(subject) \o "]"
                     ELSE ""

\* a wrapped route handled a POST that carried the header, and logged it
C26_Witness ==
  /\ last.op = "withDebugSession"
  /\ subject.method = "POST"
  /\ last.handled[1].sessionId = "sid-1"
  /\ last.logged = <<"[debugSessionId=sid-1] POST /api/users">>
  /\ last.returned = Response(500, "ERR")

\* the fetch entries appended on this page
FetchEntries == {i \in DOMAIN appended : appended[i].type = "fetch"}

\* C27: for every interleaving of wrapped fetch calls in flight together,
\* each call appends at most one entry, the entry carries the method, the
\* sanitized URL, the status and the duration of that same call, entries
\* enter the buffer in the order the calls settle, and a call that has not
\* settled has appended no entry.
C27_ConcurrentCallsIsolated ==
  /\ Cardinality(FetchEntries) <= nextCallId - Cardinality(inflight)
  /\ last.op = "fetchSettle" =>
       /\ Len(last.pushed) <= 1
       /\ Len(last.pushed) = 1 =>
            /\ appended[Len(appended)] = last.pushed[1]
            /\ state.buffer[Len(state.buffer)] = last.pushed[1]
            /\ last.pushed[1].url = sanitizeUrl(last.call.url)
            /\ last.pushed[1].meta.method = last.call.method
            /\ last.pushed[1].meta.durationMs = last.pushed[1].ts - last.call.startTime
            /\ last.outcome.kind = "resolved" =>
                 last.pushed[1].meta.status = last.outcome.response.status

\* two calls overlapped and the one made later settled first: the buffer
\* holds its entry before the entry of the earlier call, each with its own
\* method, URL and duration
C27_Witness ==
  /\ last.op = "fetchSettle"
  /\ last.call.id = 1
  /\ inflight = {}
  /\ Len(state.buffer) = 2
  /\ state.buffer[1].url = "/b" /\ state.buffer[1].meta.method = "POST"
  /\ state.buffer[1].meta.durationMs = 0
  /\ state.buffer[2].url = "/a" /\ state.buffer[2].meta.method = "GET"
  /\ state.buffer[2].meta.durationMs = 1

(***************************************************************************)
(* C28: probeServer returns the cached status without a request to the     *)
(* server when the cached status is less than PROBE_CACHE_MS old, and      *)
(* otherwise sends a request and stores the new status;                    *)
(* refreshServerStatus always sends a request; and the status a call       *)
(* returns describes the server at the serverUrl passed to that call.      *)
(***************************************************************************)
\* a call returned what the cache held, or asked the server and stored the answer
ProbeCacheRule ==
  last.op = "probeServer" =>
    /\ last.requested
         => /\ cachedStatus = last.result
            /\ last.result.lastChecked = last.at
    /\ ~last.requested
         => /\ last.via = "probeServer"
            /\ cachedStatus = last.result
            /\ last.at - last.result.lastChecked < PROBE_CACHE_MS

\* a call that found no status younger than PROBE_CACHE_MS asked the server
ProbeAsksWhenStale ==
  [][\A serverUrl \in ProbeUrls :
       /\ ProbeServer(serverUrl) \/ RefreshServerStatus(serverUrl)
       /\ \/ RefreshServerStatus(serverUrl) /\ ~ProbeServer(serverUrl)
          \/ cachedStatus = NoStatus
          \/ now - cachedStatus.lastChecked >= PROBE_CACHE_MS
       => last'.op = "probeRequested"]_vars

C28_StatusOfServerPassed ==
  /\ ProbeCacheRule
  /\ last.op = "probeServer" => last.result.server = last.serverUrl

(***************************************************************************)
(* C29: with header injection on, the call delegated to the original fetch *)
(* has the input of the caller, the init fields of the caller, and sends   *)
(* every header the caller supplied, through init.headers or through a     *)
(* Request passed as input, plus x-debug-session-id with the session id.   *)
(***************************************************************************)
InjectedCall ==
  /\ last.op = "fetch"
  /\ last.delegations # <<>>
  /\ state.initialized
  /\ state.config.injectSessionHeader

\* the delegated call carries the caller's input and init fields
InjectionKeepsArguments ==
  InjectedCall =>
    LET made == last.delegations[1]
    IN  /\ made.input = last.call.input
        /\ DOMAIN made.init = DOMAIN last.call.init \cup {"headers"}
        /\ \A key \in DOMAIN last.call.init \ {"headers"} :
             made.init[key] = last.call.init[key]
        /\ made.init.headers[InjectedHeaderName] = state.sessionId

\* the request sent has the caller's headers and the session header
InjectionKeepsHeaders ==
  InjectedCall =>
    LET made == last.delegations[1]
        given == SentHeaders(last.call.input, last.call.init)
        sent == SentHeaders(made.input, made.init)
    IN  /\ DOMAIN sent = DOMAIN given \cup {InjectedHeaderName}
        /\ \A name \in DOMAIN given \ {InjectedHeaderName} : sent[name] = given[name]

C29_InjectionOnlyAdds == InjectionKeepsArguments /\ InjectionKeepsHeaders

\* the same for calls whose input is not a Request
InjectionKeepsInitHeaders ==
  InjectedCall /\ last.call.input.kind # "Request" => InjectionKeepsHeaders

(***************************************************************************)
(* C30: a toggleDebugMode call that returns null leaves the persisted      *)
(* opt-in flag as it was and calls no reload; a call that returns true or  *)
(* false returns the value the flag has after the call.                    *)
(***************************************************************************)
\* the opt-in flag as toggleDebugMode's return value would name it
FlagValue(storage) == IF isKeyboardEnabled(storage) THEN "true" ELSE "false"

RefusalKeepsFlag ==
  last'.returned = Null =>
    /\ sessionStorage' = sessionStorage
    /\ last'.reloads = 0
    /\ reloadRequested' = reloadRequested

====
